---- MODULE Spec2Model ----
(***************************************************************************)
(* Stale-VM reconciliation and cleanup of openstack-tool.                  *)
(*                                                                         *)
(* Two variants of the same engine are modelled side by side:              *)
(*   "simple"   - package cleanupvms          (src/cleanupvms/cleanupvms.go)*)
(*   "hardened" - package cleannovastalevms   (src/unnamed/part_005)       *)
(*                                                                         *)
(* Go strings that the code folds, trims or scans are sequences of         *)
(* one-character strings, so that strings.ToLower, strings.EqualFold,      *)
(* strings.TrimSpace and fmt.Scanln are computed and not assumed.          *)
(* Strings that are only compared with == or printed are TLA+ strings.     *)
(***************************************************************************)
EXTENDS Integers, Sequences, FiniteSets, TLC

(***************************************************************************)
(* Bounds of the model.                                                    *)
(***************************************************************************)
\* longest control-plane list handed to findMissingVms in SpecFind
MaxC == 2
\* longest remote list handed to findMissingVms in SpecFind
MaxR == 2
\* most projects the identity service lists in one run
MaxProjects == 2
\* most lines the inventory command prints in one run
MaxLines == 2

(***************************************************************************)
(* Strings.                                                                *)
(***************************************************************************)
UpperLetters ==
  <<"A","B","C","D","E","F","G","H","I","J","K","L","M",
    "N","O","P","Q","R","S","T","U","V","W","X","Y","Z">>

LowerLetters ==
  <<"a","b","c","d","e","f","g","h","i","j","k","l","m",
    "n","o","p","q","r","s","t","u","v","w","x","y","z">>

\* unicode.ToLower on one (ASCII) character
ToLowerChar(c) ==
  IF \E i \in 1..26 : UpperLetters[i] = c
    THEN LowerLetters[CHOOSE i \in 1..26 : UpperLetters[i] = c]
    ELSE c

\* strings.ToLower
ToLower(s) == [i \in 1..Len(s) |-> ToLowerChar(s[i])]

\* strings.EqualFold: equality under simple case folding, rune by rune
EqualFold(s, t) ==
  /\ Len(s) = Len(t)
  /\ \A i \in 1..Len(s) : ToLowerChar(s[i]) = ToLowerChar(t[i])

\* unicode.IsSpace restricted to the blanks that occur on one line
IsSpace(c) == c \in {" ", "\t"}

RECURSIVE TrimLeft(_)
TrimLeft(s) ==
  IF s # <<>> /\ IsSpace(Head(s)) THEN TrimLeft(Tail(s)) ELSE s

RECURSIVE TrimRight(_)
TrimRight(s) ==
  IF s # <<>> /\ IsSpace(s[Len(s)])
    THEN TrimRight(SubSeq(s, 1, Len(s) - 1))
    ELSE s

\* strings.TrimSpace
TrimSpace(s) == TrimRight(TrimLeft(s))

\* all sequences over S of length at most n
BoundedSeq(S, n) == UNION {[1..k -> S] : k \in 0..n}

(***************************************************************************)
(* Data of the model.                                                      *)
(***************************************************************************)
\* VM names as the hypervisor and the control plane spell them
Names == { <<"v","1">>, <<"V","1">>, <<"v","2">> }

\* LogicalPartition.state values
States == { <<"R","u","n">>, <<"O","f","f">> }

\* tenant (project) names
Tenants == {"p1", "p2"}

\* type VM struct
VM == [Name : Names, Status : States]

\* type InstanceInfo struct, as the control-plane reader fills it
InstanceInfo == [InstanceName : Names, TenantName : Tenants, Status : {<<>>}]

(***************************************************************************)
(* ReconciliationEngine: findMissingVms.                                   *)
(***************************************************************************)
\* a comparison that tells letter case apart
NameMatch_CaseSensitive(instanceName, remoteName) == instanceName = remoteName

\* the comparison of the hardened variant: strings.EqualFold
NameMatch(instanceName, remoteName) == EqualFold(instanceName, remoteName)

\* the comparison of the simple variant: ==
Simple_NameMatch(instanceName, remoteName) == instanceName = remoteName

\* inner loop of the hardened variant: first match breaks the search
RECURSIVE found(_, _, _)
found(vmInstances, remoteName, j) ==
  IF j > Len(vmInstances) THEN FALSE
  ELSE IF NameMatch(vmInstances[j].InstanceName, remoteName) THEN TRUE
  ELSE found(vmInstances, remoteName, j + 1)

\* inner loop of the simple variant
RECURSIVE Simple_found(_, _, _)
Simple_found(vmInstances, remoteName, j) ==
  IF j > Len(vmInstances) THEN FALSE
  ELSE IF Simple_NameMatch(vmInstances[j].InstanceName, remoteName) THEN TRUE
  ELSE Simple_found(vmInstances, remoteName, j + 1)

\* the record appended for an unmatched remote VM
MissingRecord(remoteVM) ==
  [InstanceName |-> remoteVM.Name, TenantName |-> "Unknown", Status |-> remoteVM.Status]

\* outer loop of the hardened variant, from remote index i on
RECURSIVE findMissingVmsFrom(_, _, _, _)
findMissingVmsFrom(vmInstances, remoteList, i, missing) ==
  IF i > Len(remoteList) THEN missing
  ELSE findMissingVmsFrom(vmInstances, remoteList, i + 1,
         IF ~found(vmInstances, remoteList[i].Name, 1)
           THEN Append(missing, MissingRecord(remoteList[i]))
           ELSE missing)

\* a reconciliation that returns its records last first
findMissingVms_Reversed(vmInstances, remoteList) ==
  LET missing == findMissingVmsFrom(vmInstances, remoteList, 1, <<>>)
  IN [k \in 1..Len(missing) |-> missing[Len(missing) + 1 - k]]

findMissingVms(vmInstances, remoteList) ==
  findMissingVmsFrom(vmInstances, remoteList, 1, <<>>)

\* outer loop of the simple variant
RECURSIVE Simple_findMissingVmsFrom(_, _, _, _)
Simple_findMissingVmsFrom(vmInstances, remoteList, i, missing) ==
  IF i > Len(remoteList) THEN missing
  ELSE Simple_findMissingVmsFrom(vmInstances, remoteList, i + 1,
         IF ~Simple_found(vmInstances, remoteList[i].Name, 1)
           THEN Append(missing, MissingRecord(remoteList[i]))
           ELSE missing)

Simple_findMissingVms(vmInstances, remoteList) ==
  Simple_findMissingVmsFrom(vmInstances, remoteList, 1, <<>>)

(***************************************************************************)
(* util.WithRetry: the loop around one invocation of fn.                   *)
(***************************************************************************)
\* attempts passed at the four call sites of the hardened variant
HypervisorRetryAttempts == 3
ProjectsRetryAttempts == 3
ServersRetryAttempts == 3
RemoteRetryAttempts == 3

\* a loop that runs its body once whatever attempts is
WithRetryEnters_DoWhile(attempts, i) == i < attempts \/ i = 0

\* a sleep of the same duration after every failure
Backoff_Constant(sleep, i) == sleep

\* the argument of time.Sleep after the failure of invocation number i
\* (0-based): sleep * time.Duration(i+1)
Backoff(sleep, i) == sleep * (i + 1)

\* a loop that gives up at the first failure
WithRetry_GivesUp(attempts, i, failed) ==
  IF failed THEN "return_err" ELSE "return_nil"

\* for i := 0; i < attempts; i++ : whether the body runs for index i
WithRetryEnters(attempts, i) == i < attempts

\* what the loop does after invocation number i (0-based) of fn returned:
\* "return_err" (last attempt failed), "sleep" (sleep, continue), "return_nil"
WithRetry(attempts, i, failed) ==
  IF failed
    THEN IF i = attempts - 1 THEN "return_err" ELSE "sleep"
    ELSE "return_nil"

(***************************************************************************)
(* Control plane: hypervisor catalog, projects, servers.                   *)
(***************************************************************************)
HostH1 == <<"h","v","1">>
HostH1Upper == <<"H","V","1">>
HostH2 == <<"h","v","2">>

\* the --ip flag of the run
TargetIP == "10.0.0.5"

\* what hypervisors.List may answer
Catalogs ==
  { <<>>,
    << [HostIP |-> "10.0.0.50", HypervisorHostname |-> HostH2] >>,
    << [HostIP |-> "10.0.0.6", HypervisorHostname |-> HostH2],
       [HostIP |-> TargetIP, HypervisorHostname |-> HostH1] >>,
    << [HostIP |-> TargetIP, HypervisorHostname |-> HostH1],
       [HostIP |-> TargetIP, HypervisorHostname |-> HostH2] >> }

RECURSIVE resolveHostnameFrom(_, _, _)
resolveHostnameFrom(ip, hypervisors, k) ==
  IF k > Len(hypervisors) THEN <<>>
  ELSE IF hypervisors[k].HostIP = ip
    THEN hypervisors[k].HypervisorHostname
    ELSE resolveHostnameFrom(ip, hypervisors, k + 1)

\* a resolution that takes the first entry of the catalog whatever its address
resolveHostname_FirstEntry(ip, hypervisors) ==
  IF hypervisors = <<>> THEN <<>> ELSE hypervisors[1].HypervisorHostname

resolveHostname(ip, hypervisors) == resolveHostnameFrom(ip, hypervisors, 1)

ProjectNames == <<"p1", "p2", "p3", "p4", "p5", "p6">>

Project(k) == [ID |-> k, Name |-> ProjectNames[k]]

\* what projects.List may answer: the first n projects of the cloud
ProjectLists == { [k \in 1..n |-> Project(k)] : n \in 0..MaxProjects }

\* what servers.List may answer for one project
ServerLists ==
  { << [Name |-> "web", InstanceName |-> <<"V","1">>, HypervisorHostname |-> HostH1Upper] >>,
    << [Name |-> "db", InstanceName |-> <<"v","2">>, HypervisorHostname |-> HostH2],
       [Name |-> "ghost", InstanceName |-> <<>>, HypervisorHostname |-> HostH1] >> }

\* the filter loop of fetchVMsForProject: the instance names kept
RECURSIVE filteredInstancesFrom(_, _, _)
filteredInstancesFrom(serversList, hostname, k) ==
  IF k > Len(serversList) THEN <<>>
  ELSE LET server == serversList[k]
           rest == filteredInstancesFrom(serversList, hostname, k + 1)
       IN IF EqualFold(server.HypervisorHostname, hostname)
               /\ server.InstanceName # <<>>
            THEN <<server.InstanceName>> \o rest
            ELSE rest

\* the filter loop of fetchVMsForProject: the servers it prints a diagnostic for
missingInstanceName(serversList, hostname) ==
  { serversList[k].Name : k \in
      { j \in 1..Len(serversList) :
          /\ EqualFold(serversList[j].HypervisorHostname, hostname)
          /\ serversList[j].InstanceName = <<>> } }

\* an append loop that appends nothing
TaggedInstances_None(instances, project) == <<>>

\* the append loop of fetchOpenStackVMList for one project
TaggedInstances(instances, project) ==
  [k \in 1..Len(instances) |->
     [InstanceName |-> instances[k], TenantName |-> project.Name, Status |-> <<>>]]

\* capacity of the semaphore channel of the hardened fetchOpenStackVMList
SemCapacity == 10

(***************************************************************************)
(* Remote inventory: the output of the pvmctl command and its parsing.     *)
(***************************************************************************)
NameKey == <<"n","a","m","e">>
StateKey == <<"s","t","a","t","e">>
Running == <<"R","u","n">>

KeyValue(key, value) == key \o <<"=">> \o value

\* the lines the inventory command may print (after its awk filter)
InventoryLines ==
  { KeyValue(NameKey, <<"v","1">>) \o <<",">> \o KeyValue(StateKey, Running),
    KeyValue(NameKey, <<"v","2">>) \o <<",", " ">> \o KeyValue(StateKey, Running) \o <<" ">>,
    <<" ">> }

RECURSIVE JoinLines(_)
JoinLines(lines) ==
  IF lines = <<>> THEN <<>> ELSE Head(lines) \o <<"\n">> \o JoinLines(Tail(lines))

\* what session.Output may return on success
RemoteOutputs == { JoinLines(ls) : ls \in BoundedSeq(InventoryLines, MaxLines) }

\* strings.Split(s, sep) for a one-character separator
RECURSIVE SplitFrom(_, _, _)
SplitFrom(s, sep, cur) ==
  IF s = <<>> THEN <<cur>>
  ELSE IF Head(s) = sep THEN <<cur>> \o SplitFrom(Tail(s), sep, <<>>)
  ELSE SplitFrom(Tail(s), sep, Append(cur, Head(s)))

Split(s, sep) == SplitFrom(s, sep, <<>>)

\* the vmInfo map built from the fields of one line: a later field overwrites
RECURSIVE vmInfoFrom(_, _, _)
vmInfoFrom(fields, k, vmInfo) ==
  IF k > Len(fields) THEN vmInfo
  ELSE LET parts == Split(fields[k], "=")
       IN vmInfoFrom(fields, k + 1,
            IF Len(parts) = 2
              THEN [key \in (DOMAIN vmInfo) \cup {TrimSpace(parts[1])} |->
                      IF key = TrimSpace(parts[1]) THEN TrimSpace(parts[2]) ELSE vmInfo[key]]
              ELSE vmInfo)

\* the body of the loop over the lines of the output
RECURSIVE parseLinesFrom(_, _, _)
parseLinesFrom(lines, k, parsed) ==
  IF k > Len(lines) THEN parsed
  ELSE LET line == TrimSpace(lines[k])
           vmInfo == vmInfoFrom(Split(line, ","), 1, <<>>)
       IN parseLinesFrom(lines, k + 1,
            IF line = <<>> THEN parsed
            ELSE IF NameKey \in DOMAIN vmInfo /\ StateKey \in DOMAIN vmInfo
              THEN Append(parsed, [Name |-> vmInfo[NameKey], Status |-> vmInfo[StateKey]])
              ELSE parsed)

\* a parsing loop that takes a line with a name key alone, giving it the state
\* of the line before
parseRemoteOutput_NameAlone(output) ==
  LET lines == SelectSeq(Split(output, "\n"), LAMBDA line : TrimSpace(line) # <<>>)
      info(k) == vmInfoFrom(Split(TrimSpace(lines[k]), ","), 1, <<>>)
  IN SelectSeq(
       [k \in 1..Len(lines) |->
          IF NameKey \in DOMAIN info(k)
            THEN [Name |-> info(k)[NameKey],
                  Status |-> IF StateKey \in DOMAIN info(k) THEN info(k)[StateKey] ELSE <<>>]
            ELSE [Name |-> <<>>, Status |-> <<"n","o","n","e">>]],
       LAMBDA vm : vm.Status # <<"n","o","n","e">>)

parseRemoteOutput(output) == parseLinesFrom(Split(output, "\n"), 1, <<>>)

\* the outputs with their parse, computed once
ParsedRemoteOutputs == { parseRemoteOutput(o) : o \in RemoteOutputs }

\* the regular expression ltc.*-nova of the awk stage of the command: whether
\* the line has "ltc" and, anywhere after it, "-nova"
MatchesLtcNova(line) ==
  \E i \in 1..(Len(line) - 2) : \E j \in (i + 3)..(Len(line) - 4) :
    /\ SubSeq(line, i, i + 2) = <<"l","t","c">>
    /\ SubSeq(line, j, j + 4) = <<"-","n","o","v","a">>

\* an awk stage that prints every line
Awk_PrintsAll(lines) == lines

\* awk '!/ltc.*-nova/': the lines that do not match, in order
Awk(lines) == SelectSeq(lines, LAMBDA line : ~MatchesLtcNova(line))

\* lines of management partitions, and a line that only looks like one
ManagementLines ==
  { KeyValue(NameKey, <<"l","t","c","1","-","n","o","v","a">>) \o <<",">> \o KeyValue(StateKey, Running),
    KeyValue(NameKey, <<"l","t","c","-","n","o","v","a">>) \o <<",">> \o KeyValue(StateKey, Running) }
LookalikeLine == KeyValue(NameKey, <<"-","n","o","v","a","l","t","c">>) \o <<",">> \o KeyValue(StateKey, Running)

\* the lines pvmctl vm list may print
PvmctlLines == InventoryLines \cup ManagementLines \cup {LookalikeLine}

\* three lines of pvmctl: a VM, a management partition, a blank line
ExampleLines ==
  << <<"n","a","m","e","=","v","m","1",",","s","t","a","t","e","=","R","u","n","n","i","n","g">>,
     <<"n","a","m","e","=","l","t","c","0","1","-","n","o","v","a",",","s","t","a","t","e","=","R","u","n","n","i","n","g">>,
     <<>> >>

\* what the command of fetchRemoteVMListSSH gives for the lines pvmctl prints,
\* parsed by the loop over the output
readRemoteVMs(lines) == parseRemoteOutput(JoinLines(Awk(lines)))

(***************************************************************************)
(* State of one run of Run.                                                *)
(***************************************************************************)
VARIABLES
  variant,            \* "simple" (cleanupvms) or "hardened" (cleannovastalevms)
  dryRun,             \* the --dry-run flag
  outputFormat,       \* the --output flag (hardened variant only)
  regionSet,          \* whether OS_REGION_NAME is set in the environment
  expiredAt,          \* "" while the deadline of ctx has not expired, else the
                      \* position of Run at which it expired
  pc,                 \* position of Run (and of deleteAbandonedVMs, which it calls)
  result,             \* "pending", or what Run returned: NoError or a message
  retryIndex,         \* loop index i of WithRetry in fetchHypervisorList
  hypervisorsList,    \* the hypervisor catalog, from its fetch to its last use
  hypervisorHostname,
  wg,                 \* counter of the WaitGroup of Run
  osPc,               \* position of the goroutine running fetchOpenStackVMList
  osRetryIndex,       \* loop index i of WithRetry in fetchAllProjects
  projectList,
  projIdx,            \* loop index of the project loop of the simple variant
  instanceNames,      \* the slice fetchOpenStackVMList appends to
  openstackInstances,
  errOpenStack,
  wPc,                \* position of the worker goroutine of each project
  wRetryIndex,        \* loop index i of WithRetry in each worker's fetchVMsForProject
  wInstances,         \* each worker's local instances
  sem,                \* number of elements in the channel sem
  semClosed,
  mu,                 \* 0, or the worker holding the mutex
  fanWg,              \* counter of the WaitGroup of fetchOpenStackVMList
  rPc,                \* position of the goroutine running fetchRemoteVMListSSH
  rRetryIndex,        \* loop index i of WithRetry in fetchRemoteVMListSSH
  remoteVMs,
  errRemote,
  abandonedVMs,       \* the list passed to deleteAbandonedVMs
  response,           \* the variable fmt.Scanln stores into
  dIdx,               \* loop index of the deletion loop
  connOpen,           \* whether the deletion connection is open
  openSessions,       \* number of sessions open on the deletion connection
  \* history of the effects of the run
  projResult,         \* per project of projectList: how its server listing
                      \* ended and what was printed about it
  inputLine,          \* the line typed at the prompt
  stdinReads,         \* number of reads of standard input
  dials,              \* the result of each ssh.Dial call of the deletion phase
  sessionAttempts,    \* each client.NewSession call: the VM it was for, its result
  dispatched,         \* each deletion command sent, with the hypervisor's answer
  outcomes,           \* the per-VM result lines printed
  printed,            \* the other lines Run and deleteAbandonedVMs printed
  reconciled          \* number of findMissingVms calls Run has made

cfgVars == <<variant, dryRun, outputFormat, regionSet, expiredAt>>
mainVars == <<pc, result, retryIndex, hypervisorsList, hypervisorHostname>>
osVars == <<osPc, osRetryIndex, projectList, projIdx, instanceNames, openstackInstances,
            errOpenStack, projResult>>
workerVars == <<wPc, wRetryIndex, wInstances, sem, semClosed, mu, fanWg>>
remoteVars == <<rPc, rRetryIndex, remoteVMs, errRemote>>
deleteVars == <<abandonedVMs, response, dIdx, connOpen, openSessions, inputLine, stdinReads,
                dials, sessionAttempts, dispatched, outcomes>>
reportVars == <<printed, reconciled>>

vars == <<cfgVars, mainVars, wg, osVars, workerVars, remoteVars, deleteVars, reportVars>>

\* a nil error
NoError == ""

Json == <<"j","s","o","n">>
Table == <<"t","a","b","l","e">>
OutputFormats == {Json, Table}

\* one printed line: what it says, the number and the VM list it carries
Message(tag, n, vms) == [tag |-> tag, n |-> n, vms |-> vms]

\* everything but the flags and the environment, before Run is called
RunNotStarted ==
  /\ pc = "start" /\ result = "pending" /\ retryIndex = 0
  /\ hypervisorsList = <<>> /\ hypervisorHostname = <<>> /\ wg = 0
  /\ osPc = "idle" /\ osRetryIndex = 0 /\ projectList = <<>> /\ projIdx = 0
  /\ instanceNames = <<>> /\ openstackInstances = <<>> /\ errOpenStack = NoError
  /\ projResult = <<>>
  /\ wPc = <<>> /\ wRetryIndex = <<>> /\ wInstances = <<>>
  /\ sem = 0 /\ semClosed = FALSE /\ mu = 0 /\ fanWg = 0
  /\ rPc = "idle" /\ rRetryIndex = 0 /\ remoteVMs = <<>> /\ errRemote = NoError
  /\ abandonedVMs = <<>> /\ response = <<>> /\ dIdx = 0
  /\ connOpen = FALSE /\ openSessions = 0 /\ inputLine = <<>> /\ stdinReads = 0
  /\ dials = <<>> /\ sessionAttempts = <<>> /\ dispatched = <<>> /\ outcomes = <<>>
  /\ printed = <<>> /\ reconciled = 0

(***************************************************************************)
(* Run, up to the join of the two inventory fetches.                       *)
(***************************************************************************)
\* a Run that returns an error when a deletion has failed
Return_CleanupError(err) ==
  /\ pc' = "returned"
  /\ result' = IF \E k \in 1..Len(outcomes) : outcomes[k].status = "error"
                 THEN "cleanup failed" ELSE err

\* Run returns err
Return(err) == pc' = "returned" /\ result' = err

\* hardened Run: the OS_REGION_NAME check
RunCheckRegion ==
  /\ variant = "hardened" /\ pc = "start"
  /\ IF ~regionSet
       THEN Return("OS_REGION_NAME not set")
       ELSE pc' = "fetchHypervisorList" /\ UNCHANGED result
  /\ UNCHANGED <<cfgVars, retryIndex, hypervisorsList, hypervisorHostname, wg, osVars,
                 workerVars, remoteVars, deleteVars, reportVars>>

\* simple Run: authenticateOpenStack
Simple_RunAuthenticate ==
  /\ variant = "simple" /\ pc = "start"
  /\ \E err \in {NoError, "failed to load auth options", "authentication failed"} :
       IF err # NoError
         THEN Return("error authenticating OpenStack")
         ELSE pc' = "verify" /\ UNCHANGED result
  /\ UNCHANGED <<cfgVars, retryIndex, hypervisorsList, hypervisorHostname, wg, osVars,
                 workerVars, remoteVars, deleteVars, reportVars>>

\* simple Run: verifyOpenStackAuthentication
Simple_RunVerifyAuthentication ==
  /\ variant = "simple" /\ pc = "verify"
  /\ \E err \in {NoError, "failed to create identity v3 client"} :
       IF err # NoError
         THEN Return("authentication error") /\ UNCHANGED printed
         ELSE /\ printed' = Append(printed, Message("identity-ok", 0, <<>>))
              /\ pc' = "fetchHypervisorList" /\ UNCHANGED result
  /\ UNCHANGED <<cfgVars, retryIndex, hypervisorsList, hypervisorHostname, wg, osVars,
                 workerVars, remoteVars, deleteVars, reconciled>>

\* the errors of an AllPages(ctx) call
AllPagesErrors ==
  {"failed to list hypervisors", "failed to list projects", "failed to list servers"}

\* ctx.Done() is closed
CtxDone == expiredAt # ""

\* what a call made with ctx may give: once the deadline of ctx has expired
\* AllPages(ctx) fails
WithContext(replies) ==
  IF CtxDone THEN { r \in replies : r.err \in AllPagesErrors } ELSE replies

\* what one hypervisors.List / ExtractHypervisors round may give
HypervisorReplies ==
  { [err |-> e, list |-> <<>>] :
      e \in {"failed to list hypervisors", "failed to extract hypervisors"} }
  \cup { [err |-> NoError, list |-> c] : c \in Catalogs }

\* both variants: resolveHostname on the fetched list, the check of its result,
\* then wg.Add(2) and the two go statements; the list is not used again
RunResolveHostname ==
  /\ pc = "resolveHostname"
  /\ hypervisorHostname' = resolveHostname(TargetIP, hypervisorsList)
  /\ IF hypervisorHostname' = <<>>
       THEN /\ Return("no matching hypervisor found for IP")
            /\ UNCHANGED <<hypervisorsList, wg, osPc, rPc>>
       ELSE /\ wg' = 2 /\ osPc' = "start" /\ rPc' = "start"
            /\ hypervisorsList' = <<>>
            /\ pc' = "wait" /\ UNCHANGED result
  /\ UNCHANGED <<cfgVars, retryIndex, osRetryIndex, projectList, projIdx, instanceNames,
                 openstackInstances, errOpenStack, projResult, workerVars,
                 rRetryIndex, remoteVMs, errRemote, deleteVars, reportVars>>

\* hardened Run: fetchHypervisorList, one invocation of the function it retries
RunFetchHypervisorList ==
  /\ variant = "hardened" /\ pc = "fetchHypervisorList"
  /\ WithRetryEnters(HypervisorRetryAttempts, retryIndex)
  /\ \E reply \in WithContext(HypervisorReplies) :
       LET next == WithRetry(HypervisorRetryAttempts, retryIndex, reply.err # NoError)
       IN CASE next = "sleep" ->
                 /\ retryIndex' = retryIndex + 1
                 /\ UNCHANGED <<pc, result, hypervisorsList>>
            [] next = "return_err" ->
                 /\ Return("error fetching hypervisor list")
                 /\ retryIndex' = 0
                 /\ UNCHANGED hypervisorsList
            [] next = "return_nil" ->
                 /\ hypervisorsList' = reply.list
                 /\ pc' = "resolveHostname"
                 /\ retryIndex' = 0
                 /\ UNCHANGED result
  /\ UNCHANGED <<cfgVars, hypervisorHostname, wg, osVars, workerVars, remoteVars,
                 deleteVars, reportVars>>

\* simple Run: fetchHypervisorList, one attempt
Simple_RunFetchHypervisorList ==
  /\ variant = "simple" /\ pc = "fetchHypervisorList"
  /\ \E reply \in HypervisorReplies \cup {[err |-> "failed to create compute client", list |-> <<>>]} :
       IF reply.err # NoError
         THEN /\ Return("error fetching hypervisor list")
              /\ UNCHANGED hypervisorsList
         ELSE /\ hypervisorsList' = reply.list
              /\ pc' = "resolveHostname"
              /\ UNCHANGED result
  /\ UNCHANGED <<cfgVars, retryIndex, hypervisorHostname, wg, osVars, workerVars,
                 remoteVars, deleteVars, reportVars>>

\* a wait that returns while one goroutine is still running
WaitReturns_Early(counter) == counter <= 1

\* wg.Wait() returns once the counter is zero
WaitReturns(counter) == counter = 0

\* error checks that look at the control-plane fetch only
JoinError_IgnoresRemote(errOs, errSsh) ==
  IF errOs # NoError THEN "error fetching OpenStack VM list" ELSE NoError

\* the two error checks of Run after wg.Wait(): the error Run returns, if any
JoinError(errOs, errSsh) ==
  IF errOs # NoError THEN "error fetching OpenStack VM list"
  ELSE IF errSsh # NoError THEN "error fetching remote VM list"
  ELSE NoError

\* both variants: wg.Wait(), then the two error checks
RunWait ==
  /\ pc = "wait"
  /\ WaitReturns(wg)
  /\ IF JoinError(errOpenStack, errRemote) # NoError
       THEN Return(JoinError(errOpenStack, errRemote))
       ELSE pc' = "report" /\ UNCHANGED result
  /\ UNCHANGED <<cfgVars, retryIndex, hypervisorsList, hypervisorHostname, wg, osVars,
                 workerVars, remoteVars, deleteVars, reportVars>>

(***************************************************************************)
(* The goroutine of Run that runs fetchOpenStackVMList.                    *)
(***************************************************************************)
\* fetchOpenStackVMList returns (list, err) into Run's variables and its own
\* variables go out of scope (projectList stays as the record of the projects
\* the listing gave); then the deferred wg.Done() of the goroutine
OsReturn(list, err) ==
  /\ openstackInstances' = list
  /\ errOpenStack' = err
  /\ osPc' = "done"
  /\ wg' = wg - 1
  /\ osRetryIndex' = 0 /\ projIdx' = 0 /\ instanceNames' = <<>>
  /\ UNCHANGED <<projectList, projResult>>
  /\ wPc' = <<>> /\ wRetryIndex' = <<>> /\ wInstances' = <<>>

\* per project: the server listing has not ended / failed (the error is printed) /
\* gave these instances (skipped: the servers a diagnostic is printed for)
ListingPending == [state |-> "pending", instances |-> <<>>, skipped |-> {}]
ListingFailed == [state |-> "failed", instances |-> <<>>, skipped |-> {}]
ListingOk(instances, skipped) == [state |-> "ok", instances |-> instances, skipped |-> skipped]

\* what one projects.List / ExtractProjects round may give
ProjectReplies ==
  { [err |-> e, list |-> <<>>] :
      e \in {"failed to list projects", "failed to extract projects"} }
  \cup { [err |-> NoError, list |-> l] : l \in ProjectLists }

\* what one servers.List / ExtractServers round may give
ServerReplies ==
  { [err |-> e, list |-> <<>>] :
      e \in {"failed to list servers", "failed to extract servers"} }
  \cup { [err |-> NoError, list |-> l] : l \in ServerLists }

\* a listing that compares the hostnames byte by byte
fetchVMsForProject_CaseSensitive(serversList, hostname) ==
  ListingOk(
    SelectSeq([k \in 1..Len(serversList) |->
                 IF serversList[k].HypervisorHostname = hostname
                   THEN serversList[k].InstanceName ELSE <<>>],
              LAMBDA name : name # <<>>),
    { serversList[k].Name : k \in
        { j \in 1..Len(serversList) :
            /\ serversList[j].HypervisorHostname = hostname
            /\ serversList[j].InstanceName = <<>> } })

\* fetchVMsForProject on a successful listing
fetchVMsForProject(serversList, hostname) ==
  ListingOk(filteredInstancesFrom(serversList, hostname, 1),
            missingInstanceName(serversList, hostname))

\* simple fetchOpenStackVMList: the region check and the compute client
Simple_OsCreateClient ==
  /\ variant = "simple" /\ osPc = "start"
  /\ IF ~regionSet
       THEN OsReturn(<<>>, "OS_REGION_NAME not set")
       ELSE \E err \in {NoError, "failed to create compute client"} :
              IF err # NoError
                THEN OsReturn(<<>>, err)
                ELSE /\ osPc' = "projects"
                     /\ UNCHANGED <<openstackInstances, errOpenStack, wg, osRetryIndex,
                                    projectList, projIdx, instanceNames, projResult,
                                    wPc, wRetryIndex, wInstances>>
  /\ UNCHANGED <<cfgVars, mainVars, sem, semClosed, mu, fanWg, remoteVars, deleteVars,
                 reportVars>>

\* simple fetchOpenStackVMList: fetchAllProjects, one attempt
Simple_OsFetchAllProjects ==
  /\ variant = "simple" /\ osPc = "projects"
  /\ \E reply \in ProjectReplies \cup {[err |-> "failed to create identity client", list |-> <<>>]} :
       IF reply.err # NoError
         THEN OsReturn(<<>>, "error fetching projects")
         ELSE /\ projectList' = reply.list
              /\ projResult' = [k \in 1..Len(reply.list) |-> ListingPending]
              /\ projIdx' = 1
              /\ osPc' = "loop"
              /\ UNCHANGED <<openstackInstances, errOpenStack, wg, osRetryIndex,
                             instanceNames, wPc, wRetryIndex, wInstances>>
  /\ UNCHANGED <<cfgVars, mainVars, sem, semClosed, mu, fanWg, remoteVars, deleteVars,
                 reportVars>>

\* simple fetchOpenStackVMList: one iteration of the loop over the projects
Simple_OsFetchVMsForProject ==
  /\ variant = "simple" /\ osPc = "loop"
  /\ projIdx <= Len(projectList)
  /\ \E reply \in ServerReplies :
       IF reply.err # NoError
         THEN /\ projResult' = [projResult EXCEPT ![projIdx] = ListingFailed]
              /\ UNCHANGED instanceNames
         ELSE LET listing == fetchVMsForProject(reply.list, hypervisorHostname)
              IN /\ projResult' = [projResult EXCEPT ![projIdx] = listing]
                 /\ instanceNames' =
                      instanceNames \o TaggedInstances(listing.instances, projectList[projIdx])
  /\ projIdx' = projIdx + 1
  /\ UNCHANGED <<cfgVars, mainVars, wg, osPc, osRetryIndex, projectList, openstackInstances,
                 errOpenStack, workerVars, remoteVars, deleteVars, reportVars>>

\* simple fetchOpenStackVMList: the loop is over, return instanceNames, nil
Simple_OsReturn ==
  /\ variant = "simple" /\ osPc = "loop"
  /\ projIdx > Len(projectList)
  /\ OsReturn(instanceNames, NoError)
  /\ UNCHANGED <<cfgVars, mainVars, sem, semClosed, mu, fanWg, remoteVars, deleteVars,
                 reportVars>>

\* hardened fetchOpenStackVMList: one invocation of the function fetchAllProjects
\* retries; on success the loop of wg.Add(1) and go statements
OsFetchAllProjects ==
  /\ variant = "hardened" /\ osPc = "start"
  /\ WithRetryEnters(ProjectsRetryAttempts, osRetryIndex)
  /\ \E reply \in WithContext(ProjectReplies) :
       LET next == WithRetry(ProjectsRetryAttempts, osRetryIndex, reply.err # NoError)
           workers == 1..Len(reply.list)
       IN CASE next = "sleep" ->
                 /\ osRetryIndex' = osRetryIndex + 1
                 /\ UNCHANGED <<osPc, projectList, projIdx, instanceNames, projResult,
                                openstackInstances, errOpenStack, wg, wPc, wRetryIndex,
                                wInstances, fanWg>>
            [] next = "return_err" ->
                 /\ OsReturn(<<>>, "error fetching projects")
                 /\ UNCHANGED fanWg
            [] next = "return_nil" ->
                 /\ projectList' = reply.list
                 /\ projResult' = [w \in workers |-> ListingPending]
                 /\ wPc' = [w \in workers |-> "start"]
                 /\ wRetryIndex' = [w \in workers |-> 0]
                 /\ wInstances' = [w \in workers |-> <<>>]
                 /\ fanWg' = Len(reply.list)
                 /\ osPc' = "wait"
                 /\ osRetryIndex' = 0
                 /\ UNCHANGED <<openstackInstances, errOpenStack, wg, projIdx, instanceNames>>
  /\ UNCHANGED <<cfgVars, mainVars, sem, semClosed, mu, remoteVars, deleteVars, reportVars>>

\* a channel that always has room
SemHasRoom_Unbounded(n) == TRUE

\* a channel without buffer: a send blocks until a receive, and the receives
\* of the workers all come after their send
SemHasRoom_NoBuffer(n) == FALSE

\* sem <- struct{}{} does not block while the channel has room
SemHasRoom(n) == n < SemCapacity

\* a worker: sem <- struct{}{}
WorkerAcquire(w) ==
  /\ wPc[w] = "start"
  /\ SemHasRoom(sem)
  /\ sem' = sem + 1
  /\ wPc' = [wPc EXCEPT ![w] = "acquired"]
  /\ UNCHANGED <<cfgVars, mainVars, wg, osVars, wRetryIndex, wInstances, semClosed, mu,
                 fanWg, remoteVars, deleteVars, reportVars>>

\* a worker: one invocation of the function fetchVMsForProject retries; on the
\* last failure the error branch: print, return (deferred <-sem and wg.Done)
WorkerFetchVMsForProject(w) ==
  /\ wPc[w] = "acquired"
  /\ WithRetryEnters(ServersRetryAttempts, wRetryIndex[w])
  /\ \E reply \in WithContext(ServerReplies) :
       LET next == WithRetry(ServersRetryAttempts, wRetryIndex[w], reply.err # NoError)
           listing == fetchVMsForProject(reply.list, hypervisorHostname)
       IN CASE next = "sleep" ->
                 /\ wRetryIndex' = [wRetryIndex EXCEPT ![w] = @ + 1]
                 /\ UNCHANGED <<wPc, wInstances, sem, fanWg, projResult>>
            [] next = "return_err" ->
                 /\ projResult' = [projResult EXCEPT ![w] = ListingFailed]
                 /\ sem' = sem - 1
                 /\ fanWg' = fanWg - 1
                 /\ wPc' = [wPc EXCEPT ![w] = "done"]
                 /\ wRetryIndex' = [wRetryIndex EXCEPT ![w] = 0]
                 /\ UNCHANGED wInstances
            [] next = "return_nil" ->
                 /\ projResult' = [projResult EXCEPT ![w] = listing]
                 /\ wInstances' = [wInstances EXCEPT ![w] = listing.instances]
                 /\ wPc' = [wPc EXCEPT ![w] = "fetched"]
                 /\ wRetryIndex' = [wRetryIndex EXCEPT ![w] = 0]
                 /\ UNCHANGED <<sem, fanWg>>
  /\ UNCHANGED <<cfgVars, mainVars, wg, osPc, osRetryIndex, projectList, projIdx,
                 instanceNames, openstackInstances, errOpenStack, semClosed, mu,
                 remoteVars, deleteVars, reportVars>>

\* a mutex that never blocks
MutexFree_Always(holder) == TRUE

\* mu.Lock() does not block while no goroutine holds mu
MutexFree(holder) == holder = 0

\* a worker: mu.Lock()
WorkerLock(w) ==
  /\ wPc[w] = "fetched"
  /\ MutexFree(mu)
  /\ mu' = w
  /\ wPc' = [wPc EXCEPT ![w] = "locked"]
  /\ UNCHANGED <<cfgVars, mainVars, wg, osVars, wRetryIndex, wInstances, sem, semClosed,
                 fanWg, remoteVars, deleteVars, reportVars>>

\* a worker: the append loop, mu.Unlock(), then the deferred <-sem and wg.Done()
WorkerAppend(w) ==
  /\ wPc[w] = "locked"
  /\ instanceNames' = instanceNames \o TaggedInstances(wInstances[w], projectList[w])
  /\ mu' = 0
  /\ sem' = sem - 1
  /\ fanWg' = fanWg - 1
  /\ wInstances' = [wInstances EXCEPT ![w] = <<>>]
  /\ wPc' = [wPc EXCEPT ![w] = "done"]
  /\ UNCHANGED <<cfgVars, mainVars, wg, osPc, osRetryIndex, projectList, projIdx,
                 openstackInstances, errOpenStack, projResult, wRetryIndex,
                 semClosed, remoteVars, deleteVars, reportVars>>

\* hardened fetchOpenStackVMList: wg.Wait(), close(sem), return instanceNames, nil
OsFanoutReturn ==
  /\ variant = "hardened" /\ osPc = "wait"
  /\ WaitReturns(fanWg)
  /\ semClosed' = TRUE
  /\ OsReturn(instanceNames, NoError)
  /\ UNCHANGED <<cfgVars, mainVars, sem, mu, fanWg, remoteVars, deleteVars, reportVars>>

(***************************************************************************)
(* The goroutine of Run that runs fetchRemoteVMListSSH.                    *)
(***************************************************************************)
\* fetchRemoteVMListSSH returns (list, err) into Run's variables; defer wg.Done()
RemoteReturn(list, err) ==
  /\ remoteVMs' = list
  /\ errRemote' = err
  /\ rPc' = "done"
  /\ wg' = wg - 1

\* what one dial / session / command round may give
RemoteReplies ==
  { [err |-> e, vms |-> <<>>] :
      e \in {"SSH connection failed", "SSH session failed", "command failed"} }
  \cup { [err |-> NoError, vms |-> vms] : vms \in ParsedRemoteOutputs }

\* hardened fetchRemoteVMListSSH: one invocation of the function it retries
FetchRemoteVMListSSH ==
  /\ variant = "hardened" /\ rPc = "start"
  /\ WithRetryEnters(RemoteRetryAttempts, rRetryIndex)
  /\ \E reply \in RemoteReplies :
       LET next == WithRetry(RemoteRetryAttempts, rRetryIndex, reply.err # NoError)
       IN CASE next = "sleep" ->
                 /\ rRetryIndex' = rRetryIndex + 1
                 /\ UNCHANGED <<rPc, remoteVMs, errRemote, wg>>
            [] next = "return_err" ->
                 /\ RemoteReturn(<<>>, reply.err)
                 /\ rRetryIndex' = 0
            [] next = "return_nil" ->
                 /\ RemoteReturn(reply.vms, NoError)
                 /\ rRetryIndex' = 0
  /\ UNCHANGED <<cfgVars, mainVars, osVars, workerVars, deleteVars, reportVars>>

\* simple fetchRemoteVMListSSH: one attempt
Simple_FetchRemoteVMListSSH ==
  /\ variant = "simple" /\ rPc = "start"
  /\ \E reply \in RemoteReplies :
       IF reply.err # NoError
         THEN RemoteReturn(<<>>, reply.err)
         ELSE RemoteReturn(reply.vms, NoError)
  /\ UNCHANGED <<cfgVars, mainVars, osVars, workerVars, rRetryIndex, deleteVars, reportVars>>

(***************************************************************************)
(* Run after the join: the report and the call of deleteAbandonedVMs.      *)
(***************************************************************************)
\* findMissingVms of the variant that is running
Reconcile(vmInstances, vms) ==
  IF variant = "hardened"
    THEN findMissingVms(vmInstances, vms)
    ELSE Simple_findMissingVms(vmInstances, vms)

\* hardened Run: whether the output is the JSON document
IsJson(format) == ToLower(format) = Json

\* a report that prints the remote count as the missing count
RunReportLines_CountsRemote(missing) ==
  << Message("OpenStack VM count", Len(openstackInstances), <<>>),
     Message("Remote VM count", Len(remoteVMs), <<>>),
     Message("Missing VM count", Len(remoteVMs), <<>>),
     Message("Missing VMs", Len(missing), missing) >>

\* the lines Run prints after the join
RunReportLines(missing) ==
  IF variant = "hardened" /\ IsJson(outputFormat)
    THEN << Message("json openstack_vms", Len(openstackInstances), openstackInstances),
            Message("json remote_vms", Len(remoteVMs), remoteVMs),
            Message("json missing_vms", Len(missing), missing) >>
    ELSE << Message("OpenStack VM count", Len(openstackInstances), <<>>),
            Message("Remote VM count", Len(remoteVMs), <<>>),
            Message("Missing VM count", Len(missing), <<>>) >>
         \o IF Len(missing) = 0
              THEN << Message("No missing VMs detected", 0, <<>>) >>
              ELSE << Message("Missing VMs", Len(missing), missing) >>

\* the number of findMissingVms calls Run makes after the join
RunReconcileCalls(missing) ==
  IF variant = "simple" THEN 1
  ELSE (IF IsJson(outputFormat) THEN 1 ELSE IF Len(missing) = 0 THEN 2 ELSE 3)
       + (IF Len(missing) > 0 THEN 3 ELSE 1)

\* both variants: print the report, then call deleteAbandonedVMs if any VM is missing
RunReport ==
  /\ pc = "report"
  /\ LET missing == Reconcile(openstackInstances, remoteVMs)
     IN /\ printed' = printed \o RunReportLines(missing)
        /\ reconciled' = reconciled + RunReconcileCalls(missing)
        /\ IF Len(missing) > 0
             THEN /\ abandonedVMs' = Reconcile(openstackInstances, remoteVMs)
                  /\ pc' = "delete"
                  /\ UNCHANGED result
             ELSE Return(NoError) /\ UNCHANGED abandonedVMs
  /\ UNCHANGED <<cfgVars, retryIndex, hypervisorsList, hypervisorHostname, wg, osVars,
                 workerVars, remoteVars, response, dIdx, connOpen, openSessions, inputLine,
                 stdinReads, dials, sessionAttempts, dispatched, outcomes>>

(***************************************************************************)
(* CleanupExecutor: deleteAbandonedVMs, called by Run, which then returns  *)
(* nil.                                                                    *)
(***************************************************************************)
Confirm == <<"c","o","n","f","i","r","m">>
Yes == <<"y","e","s">>

\* the word the prompt asks for
ConfirmToken == IF variant = "hardened" THEN Confirm ELSE Yes

\* the lines the user may type at the prompt (without the newline)
InputLines ==
  { Confirm,
    <<"C","o","n","f","i","r","m">>,
    Confirm \o <<" ","n","o","w">>,
    <<" ">> \o Confirm \o <<" ">>,
    Confirm \o <<"x">>,
    Yes,
    <<"Y","E","S">>,
    Yes \o <<" ","p","l","s">>,
    <<"y">>,
    <<"n","o">>,
    <<>> }

\* the characters of s up to the first blank
RECURSIVE TakeWord(_)
TakeWord(s) ==
  IF s = <<>> \/ IsSpace(Head(s)) THEN <<>> ELSE <<Head(s)>> \o TakeWord(Tail(s))

\* fmt.Scanln(&response) on one line: leading blanks are skipped and the first
\* blank-separated word is stored; what follows the word only sets the error
\* Scanln returns, which the caller drops
Scanln(line) == TakeWord(TrimLeft(line))

\* a check that lets every response through
Confirmed_Always(resp) == TRUE

\* the check after the prompt: TRUE when the deletion goes ahead
Confirmed(resp) == ToLower(resp) = ConfirmToken

\* one per-VM result line
Outcome(vm, status, message, output) ==
  [vm |-> vm.InstanceName, tenant |-> vm.TenantName, status |-> status,
   message |-> message, output |-> output]

\* a command that names the first VM of the list whatever VM the loop is at
DeletionCommand_FirstOrphan(vm) ==
  [cmd |-> "pvmctl LogicalPartition delete --object-id name=",
   name |-> abandonedVMs[1].InstanceName]

\* the command fmt.Sprintf builds for one VM
DeletionCommand(vm) ==
  [cmd |-> "pvmctl LogicalPartition delete --object-id name=", name |-> vm.InstanceName]

\* what session.CombinedOutput may give
CommandReplies ==
  { [err |-> NoError, output |-> ""],
    [err |-> "Process exited with status 1", output |-> "HSCL partition busy"] }

\* a branch that skips the dry-run test
DeleteBranch_NoDryRun(n, flag) == IF n = 0 THEN "empty" ELSE "prompt"

\* deleteAbandonedVMs: the branch taken for n abandoned VMs and the dry-run flag
DeleteBranch(n, flag) ==
  IF n = 0 THEN "empty" ELSE IF flag THEN "dryrun" ELSE "prompt"

\* deleteAbandonedVMs: the empty check, the dry-run branch, the prompt
DeleteEnter ==
  /\ pc = "delete"
  /\ LET branch == DeleteBranch(Len(abandonedVMs), dryRun)
     IN CASE branch = "empty" ->
               /\ printed' = Append(printed, Message("No abandoned VMs to delete", 0, <<>>))
               /\ Return(NoError)
          [] branch = "dryrun" ->
               /\ printed' = Append(printed,
                    Message("would delete", Len(abandonedVMs), abandonedVMs))
               /\ Return(NoError)
          [] branch = "prompt" ->
               /\ printed' = Append(printed, Message("prompt", Len(abandonedVMs), <<>>))
               /\ pc' = "scanln"
               /\ UNCHANGED result
  /\ UNCHANGED <<cfgVars, retryIndex, hypervisorsList, hypervisorHostname, wg, osVars,
                 workerVars, remoteVars, deleteVars, reconciled>>

\* deleteAbandonedVMs: fmt.Scanln(&response) and the comparison with the token
DeleteScanln ==
  /\ pc = "scanln"
  /\ \E line \in InputLines :
       /\ inputLine' = line
       /\ response' = Scanln(line)
       /\ stdinReads' = stdinReads + 1
       /\ IF Confirmed(response')
            THEN pc' = "dial" /\ UNCHANGED <<result, printed>>
            ELSE /\ printed' = Append(printed, Message("aborted", 0, <<>>))
                 /\ Return(NoError)
  /\ UNCHANGED <<cfgVars, retryIndex, hypervisorsList, hypervisorHostname, wg, osVars,
                 workerVars, remoteVars, abandonedVMs, dIdx, connOpen, openSessions,
                 dials, sessionAttempts, dispatched, outcomes, reconciled>>

\* a dial whose error is not looked at
DialBranch_IgnoresError(err) == "loop"

\* deleteAbandonedVMs: what follows ssh.Dial
DialBranch(err) == IF err # NoError THEN "return" ELSE "loop"

\* deleteAbandonedVMs: ssh.Dial
DeleteDial ==
  /\ pc = "dial"
  /\ \E err \in {NoError, "dial tcp: connection refused"} :
       /\ dials' = Append(dials, err)
       /\ IF DialBranch(err) = "return"
            THEN /\ printed' = Append(printed, Message("SSH connection error", 0, <<>>))
                 /\ Return(NoError)
                 /\ UNCHANGED <<connOpen, dIdx>>
            ELSE /\ connOpen' = TRUE
                 /\ dIdx' = 1
                 /\ pc' = "loop"
                 /\ UNCHANGED <<result, printed>>
  /\ UNCHANGED <<cfgVars, retryIndex, hypervisorsList, hypervisorHostname, wg, osVars,
                 workerVars, remoteVars, abandonedVMs, response, openSessions, inputLine,
                 stdinReads, sessionAttempts, dispatched, outcomes, reconciled>>

\* deletion loop: client.NewSession() for the next VM
DeleteNewSession ==
  /\ pc = "loop"
  /\ dIdx <= Len(abandonedVMs)
  /\ \E err \in {NoError, "ssh: unexpected packet"} :
       /\ sessionAttempts' = Append(sessionAttempts,
            [name |-> abandonedVMs[dIdx].InstanceName, err |-> err])
       /\ IF err # NoError
            THEN /\ outcomes' = Append(outcomes,
                      Outcome(abandonedVMs[dIdx], "error", "SSH session failed", ""))
                 /\ dIdx' = dIdx + 1
                 /\ UNCHANGED <<pc, openSessions>>
            ELSE /\ openSessions' = openSessions + 1
                 /\ pc' = "command"
                 /\ UNCHANGED <<outcomes, dIdx>>
  /\ UNCHANGED <<cfgVars, result, retryIndex, hypervisorsList, hypervisorHostname, wg,
                 osVars, workerVars, remoteVars, abandonedVMs, response, connOpen,
                 inputLine, stdinReads, dials, dispatched, reportVars>>

\* session.Close() right after the command (hardened) or deferred (simple)
SessionsAfterCommand(n) == IF variant = "hardened" THEN n - 1 ELSE n

\* a result line that reports every command as a success
CommandOutcome_AlwaysSuccess(vm, reply) == Outcome(vm, "success", "deleted", "")

\* the result line of one deletion command
CommandOutcome(vm, reply) ==
  IF reply.err # NoError
    THEN Outcome(vm, "error", "Failed to delete VM", reply.output)
    ELSE Outcome(vm, "success", "deleted", "")

\* deletion loop: session.CombinedOutput(cmd) and the result line
DeleteCommand ==
  /\ pc = "command"
  /\ \E reply \in CommandReplies :
       /\ dispatched' = Append(dispatched,
            [command |-> DeletionCommand(abandonedVMs[dIdx]), reply |-> reply])
       /\ outcomes' = Append(outcomes, CommandOutcome(abandonedVMs[dIdx], reply))
  /\ openSessions' = SessionsAfterCommand(openSessions)
  /\ dIdx' = dIdx + 1
  /\ pc' = "loop"
  /\ UNCHANGED <<cfgVars, result, retryIndex, hypervisorsList, hypervisorHostname, wg,
                 osVars, workerVars, remoteVars, abandonedVMs, response, connOpen,
                 inputLine, stdinReads, dials, sessionAttempts, reportVars>>

\* the loop is over: the deferred Close calls run, deleteAbandonedVMs and Run return
DeleteLoopEnd ==
  /\ pc = "loop"
  /\ dIdx > Len(abandonedVMs)
  /\ openSessions' = 0
  /\ connOpen' = FALSE
  /\ Return(NoError)
  /\ UNCHANGED <<cfgVars, retryIndex, hypervisorsList, hypervisorHostname, wg, osVars,
                 workerVars, remoteVars, abandonedVMs, response, dIdx, inputLine,
                 stdinReads, dials, sessionAttempts, dispatched, outcomes,
                 reportVars>>

(***************************************************************************)
(* SpecFind: findMissingVms applied to arbitrary bounded inputs.           *)
(***************************************************************************)
VARIABLES
  poolPc,       \* fetchOpenStackVMList: "off", "wait" (in wg.Wait), "returned"
  poolAt,       \* how many of its goroutines are at each position
  poolSem,      \* number of tokens in sem
  poolMu,       \* whether mu is held
  poolWg,       \* the counter of wg
  poolClosed,   \* whether sem has been closed
  mPc,          \* runManage: "off", "start", "fanout", "returned"
  mAction,      \* the subcommand given to vm manage
  mDryRun,      \* cfg.DryRun
  mState,       \* cfg.State
  mTargets,     \* the entries of cfg.VM between the commas
  mWorker,      \* the position of the goroutine of each entry
  mServer,      \* the status of the server findVM gave each goroutine
  mSem,         \* number of tokens in sem
  apiCalls,     \* the compute API calls made: the call and the entry
  mStdinReads,  \* number of reads from standard input
  mResults,     \* results
  mErr,         \* what runManage returned
  readerPc,     \* "off", "input" before fetchRemoteVMListSSH, then the variant
  pvmctlLines,  \* the lines pvmctl prints on the hypervisor
  readerVMs,    \* the list fetchRemoteVMListSSH returns
  fPc,        \* "off", "input" before the call, "hardened" / "simple" after it
  fC,         \* the control-plane list passed in
  fR,         \* the remote list passed in
  fMissing,   \* the list returned
  qPc,          \* "off", "input" before fetchVMsForProject, then the variant
  qServers,     \* the servers the compute service lists for the project
  qHostname,    \* the hostname of the target hypervisor
  qProject,     \* the project
  qInstances,   \* what fetchOpenStackVMList appends for the project
  qDiagnostics, \* the servers named in the diagnostics printed
  sshPc,        \* fetchRemoteVMListSSH: "off", "start", "returned"
  sshRetryIndex, \* loop index i of WithRetry
  sshRemoteVMs, \* the variable remoteVMs the retried function assigns
  sshAttempts,  \* what each attempt gave: its error, the VMs of its output
  sshReturned,  \* the list and the error returned
  wrPc,         \* WithRetry: "off", "loop", "returned"
  wrAttempts,   \* the parameter attempts
  wrSleep,      \* the parameter sleep
  wrI,          \* the loop index i
  wrTrace,      \* the invocations of fn with their results and the calls of
                \* time.Sleep with their durations, in order
  wrResult      \* "pending", or what WithRetry returned

readerVars == <<readerPc, pvmctlLines, readerVMs>>

manageVars == <<mPc, mAction, mDryRun, mState, mTargets, mWorker, mServer, mSem,
                apiCalls, mStdinReads, mResults, mErr>>

poolVars == <<poolPc, poolAt, poolSem, poolMu, poolWg, poolClosed>>

queryVars == <<qPc, qServers, qHostname, qProject, qInstances, qDiagnostics>>

\* the variables of the specifications of single functions added last
sshVars == <<sshPc, sshRetryIndex, sshRemoteVMs, sshAttempts, sshReturned>>

retryVars == <<wrPc, wrAttempts, wrSleep, wrI, wrTrace, wrResult>>

unitVars == <<queryVars, sshVars, retryVars>>

fvars == <<fPc, fC, fR, fMissing, readerVars, manageVars, poolVars, unitVars>>

allvars == <<vars, fvars>>

ReaderOff == readerPc = "off" /\ pvmctlLines = <<>> /\ readerVMs = <<>>

QueryOff ==
  /\ qPc = "off" /\ qServers = <<>> /\ qHostname = <<>> /\ qProject = Project(1)
  /\ qInstances = <<>> /\ qDiagnostics = {}

SshOff ==
  /\ sshPc = "off" /\ sshRetryIndex = 0 /\ sshRemoteVMs = <<>> /\ sshAttempts = <<>>
  /\ sshReturned = [vms |-> <<>>, err |-> NoError]

RetryOff ==
  /\ wrPc = "off" /\ wrAttempts = 0 /\ wrSleep = 0 /\ wrI = 0 /\ wrTrace = <<>>
  /\ wrResult = "pending"

UnitOff == QueryOff /\ SshOff /\ RetryOff

PoolOff ==
  /\ poolPc = "off" /\ poolAt = <<>> /\ poolSem = 0 /\ poolMu = FALSE
  /\ poolWg = 0 /\ poolClosed = FALSE

ManageOff ==
  /\ mPc = "off" /\ mAction = <<>> /\ mDryRun = FALSE /\ mState = <<>>
  /\ mTargets = <<>> /\ mWorker = <<>> /\ mServer = <<>> /\ mSem = 0
  /\ apiCalls = {} /\ mStdinReads = 0 /\ mResults = <<>> /\ mErr = NoError

\* no other function of fvars than those of unitVars is being applied
FindOff_Others ==
  /\ fPc = "off" /\ fC = <<>> /\ fR = <<>> /\ fMissing = <<>>
  /\ ReaderOff /\ ManageOff /\ PoolOff

FindOff == FindOff_Others /\ UnitOff

InitFind ==
  /\ fPc = "input"
  /\ fC \in BoundedSeq(InstanceInfo, MaxC)
  /\ fR \in BoundedSeq(VM, MaxR)
  /\ fMissing = <<>>
  /\ ReaderOff /\ ManageOff /\ PoolOff /\ UnitOff
  /\ variant = "hardened" /\ dryRun = TRUE /\ outputFormat = Table /\ regionSet = TRUE
  /\ expiredAt = ""
  /\ RunNotStarted

CallFindMissingVms ==
  /\ fPc = "input"
  /\ fMissing' = findMissingVms(fC, fR)
  /\ fPc' = "hardened"
  /\ UNCHANGED <<fC, fR, readerVars, manageVars, poolVars, unitVars, vars>>

CallSimpleFindMissingVms ==
  /\ fPc = "input"
  /\ fMissing' = Simple_findMissingVms(fC, fR)
  /\ fPc' = "simple"
  /\ UNCHANGED <<fC, fR, readerVars, manageVars, poolVars, unitVars, vars>>

NextFind == CallFindMissingVms \/ CallSimpleFindMissingVms

SpecFind == InitFind /\ [][NextFind]_allvars

(***************************************************************************)
(* SpecReader: the command and the parsing of fetchRemoteVMListSSH applied *)
(* to what pvmctl prints.                                                  *)
(***************************************************************************)
InitReader ==
  /\ readerPc = "input"
  /\ pvmctlLines \in BoundedSeq(PvmctlLines, MaxLines) \cup {ExampleLines}
  /\ readerVMs = <<>>
  /\ fPc = "off" /\ fC = <<>> /\ fR = <<>> /\ fMissing = <<>>
  /\ ManageOff /\ PoolOff /\ UnitOff
  /\ variant = "hardened" /\ dryRun = TRUE /\ outputFormat = Table /\ regionSet = TRUE
  /\ expiredAt = ""
  /\ RunNotStarted

\* hardened fetchRemoteVMListSSH on a successful attempt
CallFetchRemoteVMListSSH ==
  /\ readerPc = "input"
  /\ readerVMs' = readRemoteVMs(pvmctlLines)
  /\ readerPc' = "hardened"
  /\ UNCHANGED <<pvmctlLines, fPc, fC, fR, fMissing, manageVars, poolVars, unitVars, vars>>

\* simple fetchRemoteVMListSSH: the same command and the same loop
CallSimpleFetchRemoteVMListSSH ==
  /\ readerPc = "input"
  /\ readerVMs' = readRemoteVMs(pvmctlLines)
  /\ readerPc' = "simple"
  /\ UNCHANGED <<pvmctlLines, fPc, fC, fR, fMissing, manageVars, poolVars, unitVars, vars>>

NextReader == CallFetchRemoteVMListSSH \/ CallSimpleFetchRemoteVMListSSH

SpecReader == InitReader /\ [][NextReader]_allvars

(***************************************************************************)
(* SpecParse: the same two calls on output that has lines the parsing loop *)
(* drops or reads in part.                                                 *)
(***************************************************************************)
\* lines without one of the keys, with a key spelled otherwise, with blanks
\* around a key, with a field of two "=", with a key given twice
OddLines ==
  { KeyValue(NameKey, <<"v","1">>),
    KeyValue(StateKey, Running),
    KeyValue(<<"N","a","m","e">>, <<"v","1">>) \o <<",">> \o KeyValue(StateKey, Running),
    <<" ">> \o NameKey \o <<" ","=","v","1",",">> \o KeyValue(StateKey, <<>>),
    KeyValue(NameKey, <<"v","1","=","x">>) \o <<",">> \o KeyValue(StateKey, Running),
    KeyValue(NameKey, <<"v","1">>) \o <<",">> \o KeyValue(StateKey, Running)
      \o <<",">> \o KeyValue(NameKey, <<"v","2">>) }

InitParse ==
  /\ readerPc = "input"
  /\ pvmctlLines \in BoundedSeq(InventoryLines \cup OddLines, MaxLines)
  /\ readerVMs = <<>>
  /\ fPc = "off" /\ fC = <<>> /\ fR = <<>> /\ fMissing = <<>>
  /\ ManageOff /\ PoolOff /\ UnitOff
  /\ variant = "hardened" /\ dryRun = TRUE /\ outputFormat = Table /\ regionSet = TRUE
  /\ expiredAt = ""
  /\ RunNotStarted

SpecParse == InitParse /\ [][NextReader]_allvars

(***************************************************************************)
(* SpecManage: vm manage, runManage and the handlers of actionHandlers.    *)
(***************************************************************************)
MaxVMs == 2

\* unicode.ToUpper on one (ASCII) character
ToUpperChar(c) ==
  IF \E i \in 1..26 : LowerLetters[i] = c
    THEN UpperLetters[CHOOSE i \in 1..26 : LowerLetters[i] = c]
    ELSE c

\* strings.ToUpper
ToUpper(s) == [i \in 1..Len(s) |-> ToUpperChar(s[i])]

ActionDelete == <<"d","e","l","e","t","e">>
ActionForceDelete == <<"f","o","r","c","e","-","d","e","l","e","t","e">>
ActionStart == <<"s","t","a","r","t">>
ActionStop == <<"s","t","o","p">>
ActionPause == <<"p","a","u","s","e">>
ActionUnpause == <<"u","n","p","a","u","s","e">>
ActionSuspend == <<"s","u","s","p","e","n","d">>
ActionResume == <<"r","e","s","u","m","e">>
ActionReboot == <<"r","e","b","o","o","t">>
ActionSetState == <<"s","e","t","-","s","t","a","t","e">>

\* the keys of actionHandlers
ActionNames ==
  { ActionDelete, ActionForceDelete, ActionStart, ActionStop, ActionPause,
    ActionUnpause, ActionSuspend, ActionResume, ActionReboot, ActionSetState }

\* the subcommands a user may give: the keys, one in capitals, an unknown one
GivenActions == ActionNames \cup { <<"D","E","L","E","T","E">>, <<"p","u","r","g","e">> }

StatusActive == <<"A","C","T","I","V","E">>
StatusShutoff == <<"S","H","U","T","O","F","F">>
StatusPaused == <<"P","A","U","S","E","D">>
StatusSuspended == <<"S","U","S","P","E","N","D","E","D">>
StatusError == <<"E","R","R","O","R">>

\* vm.Status of the server findVM gives
ServerStatuses == { StatusActive, StatusShutoff, StatusPaused, StatusSuspended }

\* the --state flag of set-state (main refuses an empty one)
GivenStates == { <<"a","c","t","i","v","e">>, StatusError, <<"d","o","w","n">> }

\* the entries of --vm between the commas: a name, an ID, and blanks only
EntryKinds == {"name", "id", "blank"}

\* strings.TrimSpace(vmNameOrID) == "" for the entry
IsBlankEntry(kind) == kind = "blank"

\* uuidRegex.MatchString on the trimmed entry
IsID(kind) == kind = "id"

\* the compute API calls that change a server
StateChangingCalls ==
  {"Delete", "ForceDelete", "Start", "Stop", "Pause", "Unpause", "Suspend",
   "Resume", "Reboot"}

\* the compute API call of findVM: servers.Get for an ID, servers.List for a name
FindCall(kind) == IF IsID(kind) THEN "Get" ELSE "List"

\* a check of cfg.DryRun that never skips
DryRunSkips_Never(cfgDryRun) == FALSE

\* if cfg.DryRun { return nil }
DryRunSkips(cfgDryRun) == cfgDryRun

Returns(err) == [kind |-> "return", call |-> "", err |-> err]
Prompts == [kind |-> "prompt", call |-> "", err |-> NoError]
Calls(call) == [kind |-> "call", call |-> call, err |-> NoError]

\* a handler up to its first read of standard input or API call: what it
\* does next
HandlerEnters(action, cfgDryRun, status, cfgState) ==
  CASE action \in {ActionDelete, ActionForceDelete} ->
         IF DryRunSkips(cfgDryRun) THEN Returns(NoError) ELSE Prompts
    [] action = ActionStart ->
         IF ToUpper(status) = StatusActive THEN Returns("is already active")
         ELSE IF DryRunSkips(cfgDryRun) THEN Returns(NoError)
         ELSE Calls("Start")
    [] action = ActionStop ->
         IF ToUpper(status) = StatusShutoff THEN Returns("is already stopped")
         ELSE IF DryRunSkips(cfgDryRun) THEN Returns(NoError)
         ELSE Calls("Stop")
    [] action = ActionPause ->
         IF DryRunSkips(cfgDryRun) THEN Returns(NoError) ELSE Calls("Pause")
    [] action = ActionUnpause ->
         IF DryRunSkips(cfgDryRun) THEN Returns(NoError) ELSE Calls("Unpause")
    [] action = ActionSuspend ->
         IF DryRunSkips(cfgDryRun) THEN Returns(NoError) ELSE Calls("Suspend")
    [] action = ActionResume ->
         IF DryRunSkips(cfgDryRun) THEN Returns(NoError) ELSE Calls("Resume")
    [] action = ActionReboot ->
         IF DryRunSkips(cfgDryRun) THEN Returns(NoError) ELSE Calls("Reboot")
    [] action = ActionSetState ->
         IF DryRunSkips(cfgDryRun) THEN Returns(NoError)
         ELSE IF ToUpper(cfgState) \notin {StatusActive, StatusError}
           THEN Returns("invalid state")
         ELSE IF ToUpper(status) = ToUpper(cfgState)
           THEN Returns("is already in state")
         ELSE Prompts

\* a handler after the user typed confirm: what it does next
HandlerConfirmed(action, status, cfgState) ==
  CASE action = ActionDelete -> Calls("Delete")
    [] action = ActionForceDelete -> Calls("ForceDelete")
    [] action = ActionSetState ->
         IF ToUpper(cfgState) = StatusActive
           THEN CASE ToUpper(status) = StatusShutoff -> Calls("Start")
                  [] ToUpper(status) = StatusPaused -> Calls("Unpause")
                  [] ToUpper(status) = StatusSuspended -> Calls("Resume")
                  [] OTHER -> Returns(NoError)
           ELSE Returns("setting ERROR state is not directly supported")

\* the lines the user may type at the prompt of a handler
ManageInputLines ==
  { Confirm, <<" ","C","o","n","f","i","r","m"," ">>, <<"n","o">>, <<>> }

\* strings.ToLower(strings.TrimSpace(scanner.Text())) == "confirm"
ManageConfirmed(line) == ToLower(TrimSpace(line)) = Confirm

\* capacity of sem in runManage
ManageSemCapacity == 5

InitManage ==
  /\ mPc = "start"
  /\ mAction \in GivenActions
  /\ mDryRun \in BOOLEAN
  /\ mState \in (IF mAction = ActionSetState THEN GivenStates ELSE {<<>>})
  /\ mTargets \in BoundedSeq(EntryKinds, MaxVMs)
  /\ mWorker = <<>> /\ mServer = <<>> /\ mSem = 0
  /\ apiCalls = {} /\ mStdinReads = 0 /\ mResults = <<>> /\ mErr = NoError
  /\ fPc = "off" /\ fC = <<>> /\ fR = <<>> /\ fMissing = <<>>
  /\ ReaderOff /\ PoolOff /\ UnitOff
  /\ variant = "hardened" /\ dryRun = TRUE /\ outputFormat = Table /\ regionSet = TRUE
  /\ expiredAt = ""
  /\ RunNotStarted

ManageFrame == UNCHANGED <<fPc, fC, fR, fMissing, readerVars, poolVars, unitVars, vars>>

\* runManage up to wg.Wait(): the checks of the flags, the lookup of the
\* handler, getProjectID, and the loop that starts one goroutine for each
\* entry that is not blank
ManageStart ==
  /\ mPc = "start"
  /\ \E projectErr \in {NoError, "failed to get project ID"} :
       IF mTargets = <<>> THEN
         /\ mPc' = "returned" /\ mErr' = "vm flag is required"
         /\ UNCHANGED mWorker
       ELSE IF ToLower(mAction) \notin ActionNames THEN
         /\ mPc' = "returned" /\ mErr' = "invalid subcommand"
         /\ UNCHANGED mWorker
       ELSE IF projectErr # NoError THEN
         /\ mPc' = "returned" /\ mErr' = projectErr
         /\ UNCHANGED mWorker
       ELSE
         /\ mPc' = "fanout" /\ UNCHANGED mErr
         /\ mWorker' = [k \in DOMAIN mTargets |->
                          IF IsBlankEntry(mTargets[k]) THEN "none" ELSE "spawned"]
  /\ mServer' = [k \in DOMAIN mTargets |-> <<>>]
  /\ UNCHANGED <<mAction, mDryRun, mState, mTargets, mSem, apiCalls, mStdinReads,
                 mResults>>
  /\ ManageFrame

\* the goroutine returns: the result is appended under mu, then the deferred
\* <-sem and wg.Done(); its variables go out of scope
ManageWorkerReturns(k, status) ==
  /\ mResults' = Append(mResults, [target |-> k, Status |-> status])
  /\ mWorker' = [mWorker EXCEPT ![k] = "done"]
  /\ mServer' = [mServer EXCEPT ![k] = <<>>]
  /\ mSem' = mSem - 1

\* the goroutine of entry k: sem <- struct{}{}
ManageAcquire(k) ==
  /\ mPc = "fanout" /\ mWorker[k] = "spawned"
  /\ mSem < ManageSemCapacity
  /\ mSem' = mSem + 1
  /\ mWorker' = [mWorker EXCEPT ![k] = "find"]
  /\ UNCHANGED <<mPc, mAction, mDryRun, mState, mTargets, mServer, apiCalls,
                 mStdinReads, mResults, mErr>>
  /\ ManageFrame

\* what the handler of entry k does next on a server of this status, and the
\* goroutine with it; made are the API calls made up to here
ManageHandlerStep(k, step, status, made) ==
  CASE step.kind = "return" ->
         /\ ManageWorkerReturns(k, IF step.err = NoError THEN "success" ELSE "error")
         /\ apiCalls' = made
    [] step.kind = "prompt" ->
         /\ mWorker' = [mWorker EXCEPT ![k] = "scan"]
         /\ apiCalls' = made
         /\ mServer' = [mServer EXCEPT ![k] = status]
         /\ UNCHANGED <<mResults, mSem>>
    [] step.kind = "call" ->
         /\ apiCalls' = made \cup {[call |-> step.call, target |-> k]}
         /\ \E err \in {NoError, "failed"} :
              ManageWorkerReturns(k, IF err = NoError THEN "success" ELSE "error")

\* the goroutine of entry k: findVM, then the handler up to its first read of
\* standard input or to its return
ManageFindAndEnter(k) ==
  /\ mPc = "fanout" /\ mWorker[k] = "find"
  /\ LET made == apiCalls \cup {[call |-> FindCall(mTargets[k]), target |-> k]}
     IN \/ /\ apiCalls' = made
           /\ ManageWorkerReturns(k, "error")
        \/ \E status \in ServerStatuses :
             ManageHandlerStep(k, HandlerEnters(ToLower(mAction), mDryRun, status,
                                                mState), status, made)
  /\ UNCHANGED <<mPc, mAction, mDryRun, mState, mTargets, mStdinReads, mErr>>
  /\ ManageFrame

\* the goroutine of entry k: scanner.Scan(), the check of the response, and
\* the rest of the handler
ManageScan(k) ==
  /\ mPc = "fanout" /\ mWorker[k] = "scan"
  /\ mStdinReads' = mStdinReads + 1
  /\ \E line \in ManageInputLines :
       IF ManageConfirmed(line)
         THEN ManageHandlerStep(k, HandlerConfirmed(ToLower(mAction), mServer[k],
                                                    mState), mServer[k], apiCalls)
         ELSE /\ ManageWorkerReturns(k, "error")
              /\ UNCHANGED apiCalls
  /\ UNCHANGED <<mPc, mAction, mDryRun, mState, mTargets, mErr>>
  /\ ManageFrame

\* runManage: wg.Wait() returns, the results are printed, return nil
ManageReturn ==
  /\ mPc = "fanout"
  /\ \A k \in DOMAIN mWorker : mWorker[k] \in {"none", "done"}
  /\ mPc' = "returned" /\ mErr' = NoError
  /\ UNCHANGED <<mAction, mDryRun, mState, mTargets, mWorker, mServer, mSem,
                 apiCalls, mStdinReads, mResults>>
  /\ ManageFrame

NextManage ==
  \/ ManageStart
  \/ \E k \in DOMAIN mWorker : ManageAcquire(k)
  \/ \E k \in DOMAIN mWorker : ManageFindAndEnter(k)
  \/ \E k \in DOMAIN mWorker : ManageScan(k)
  \/ ManageReturn

SpecManage == InitManage /\ [][NextManage]_allvars

(***************************************************************************)
(* SpecPool: the goroutines of the hardened fetchOpenStackVMList for many  *)
(* projects. The goroutines differ only in their project, so the state     *)
(* holds the number of goroutines at each position.                        *)
(***************************************************************************)
MaxFanout == 12

\* the positions of a goroutine: before sem <- struct{}{}, in invocation
\* number retry of fetchVMsForProject, before mu.Lock(), in the append loop,
\* returned
PoolPositions ==
  { [at |-> p, retry |-> 0] : p \in {"start", "fetched", "locked", "done"} }
  \cup { [at |-> "acquired", retry |-> i] : i \in 0..(ServersRetryAttempts - 1) }

PoolPosition(p, i) == [at |-> p, retry |-> i]

\* one goroutine moves from a position to another
PoolMove(from, to) ==
  poolAt' = [p \in PoolPositions |->
               poolAt[p] - (IF p = from THEN 1 ELSE 0) + (IF p = to THEN 1 ELSE 0)]

\* the goroutines that hold a token of sem
PoolHolders ==
  poolAt[PoolPosition("fetched", 0)] + poolAt[PoolPosition("locked", 0)]
  + poolAt[PoolPosition("acquired", 0)] + poolAt[PoolPosition("acquired", 1)]
  + poolAt[PoolPosition("acquired", 2)]

\* the state after the loop of wg.Add(1) and go statements over the projects
InitPool ==
  /\ poolPc = "wait"
  /\ \E n \in 0..MaxFanout :
       /\ poolAt = [p \in PoolPositions |-> IF p = PoolPosition("start", 0) THEN n ELSE 0]
       /\ poolWg = n
  /\ poolSem = 0 /\ poolMu = FALSE /\ poolClosed = FALSE
  /\ fPc = "off" /\ fC = <<>> /\ fR = <<>> /\ fMissing = <<>>
  /\ ReaderOff /\ ManageOff /\ UnitOff
  /\ variant = "hardened" /\ dryRun = TRUE /\ outputFormat = Table /\ regionSet = TRUE
  /\ expiredAt = ""
  /\ RunNotStarted

PoolFrame == UNCHANGED <<fPc, fC, fR, fMissing, readerVars, manageVars, unitVars, vars>>

\* a goroutine: sem <- struct{}{}
PoolAcquire ==
  /\ poolAt[PoolPosition("start", 0)] > 0
  /\ SemHasRoom(poolSem)
  /\ poolSem' = poolSem + 1
  /\ PoolMove(PoolPosition("start", 0), PoolPosition("acquired", 0))
  /\ UNCHANGED <<poolPc, poolMu, poolWg, poolClosed>>
  /\ PoolFrame

\* a goroutine: one invocation of the function fetchVMsForProject retries; on
\* the last failure the error branch: print, return (deferred <-sem, wg.Done)
PoolFetchVMsForProject ==
  /\ \E i \in 0..(ServersRetryAttempts - 1) : \E failed \in BOOLEAN :
       /\ poolAt[PoolPosition("acquired", i)] > 0
       /\ WithRetryEnters(ServersRetryAttempts, i)
       /\ LET next == WithRetry(ServersRetryAttempts, i, failed)
          IN CASE next = "sleep" ->
                    /\ PoolMove(PoolPosition("acquired", i), PoolPosition("acquired", i + 1))
                    /\ UNCHANGED <<poolSem, poolWg>>
               [] next = "return_err" ->
                    /\ PoolMove(PoolPosition("acquired", i), PoolPosition("done", 0))
                    /\ poolSem' = poolSem - 1
                    /\ poolWg' = poolWg - 1
               [] next = "return_nil" ->
                    /\ PoolMove(PoolPosition("acquired", i), PoolPosition("fetched", 0))
                    /\ UNCHANGED <<poolSem, poolWg>>
  /\ UNCHANGED <<poolPc, poolMu, poolClosed>>
  /\ PoolFrame

\* a goroutine: mu.Lock()
PoolLock ==
  /\ poolAt[PoolPosition("fetched", 0)] > 0
  /\ ~poolMu
  /\ poolMu' = TRUE
  /\ PoolMove(PoolPosition("fetched", 0), PoolPosition("locked", 0))
  /\ UNCHANGED <<poolPc, poolSem, poolWg, poolClosed>>
  /\ PoolFrame

\* a goroutine: the append loop, mu.Unlock(), then the deferred <-sem and
\* wg.Done()
PoolAppend ==
  /\ poolAt[PoolPosition("locked", 0)] > 0
  /\ poolMu' = FALSE
  /\ poolSem' = poolSem - 1
  /\ poolWg' = poolWg - 1
  /\ PoolMove(PoolPosition("locked", 0), PoolPosition("done", 0))
  /\ UNCHANGED <<poolPc, poolClosed>>
  /\ PoolFrame

\* fetchOpenStackVMList: wg.Wait() returns, close(sem), return
PoolReturn ==
  /\ poolPc = "wait"
  /\ WaitReturns(poolWg)
  /\ poolPc' = "returned"
  /\ poolClosed' = TRUE
  /\ UNCHANGED <<poolAt, poolSem, poolMu, poolWg>>
  /\ PoolFrame

NextPool ==
  \/ PoolAcquire
  \/ PoolFetchVMsForProject
  \/ PoolLock
  \/ PoolAppend
  \/ PoolReturn

SpecPool == InitPool /\ [][NextPool]_allvars

\* the same goroutines under the scheduler of the Go runtime, which lets every
\* goroutine that can take a step take one, and with every per-project
\* query returning
SpecPoolFair ==
  /\ InitPool /\ [][NextPool]_allvars
  /\ WF_allvars(PoolAcquire)
  /\ WF_allvars(PoolFetchVMsForProject)
  /\ WF_allvars(PoolLock)
  /\ WF_allvars(PoolAppend)
  /\ WF_allvars(PoolReturn)

(***************************************************************************)
(* SpecQuery: fetchVMsForProject and the append loop of                    *)
(* fetchOpenStackVMList applied to what the compute service lists for one  *)
(* project.                                                                *)
(***************************************************************************)
\* longest server list of the project
MaxServers == 2

\* the servers the compute service may list: on the target hypervisor in
\* either spelling, on another one, with and without an instance name
GivenServers ==
  [Name : {"web", "db"},
   InstanceName : {<<>>, <<"v","1">>},
   HypervisorHostname : {HostH1, HostH1Upper, HostH2}]

InitQuery ==
  /\ qPc = "input"
  /\ qServers \in BoundedSeq(GivenServers, MaxServers)
  /\ qHostname \in {HostH1, HostH1Upper}
  /\ qProject \in {Project(1), Project(2)}
  /\ qInstances = <<>> /\ qDiagnostics = {}
  /\ FindOff_Others /\ SshOff /\ RetryOff
  /\ variant = "hardened" /\ dryRun = TRUE /\ outputFormat = Table /\ regionSet = TRUE
  /\ expiredAt = ""
  /\ RunNotStarted

QueryFrame ==
  UNCHANGED <<qServers, qHostname, qProject, fPc, fC, fR, fMissing, readerVars,
              manageVars, poolVars, sshVars, retryVars, vars>>

\* hardened: a successful fetchVMsForProject of a worker, then its append loop
CallFetchVMsForProject ==
  /\ qPc = "input"
  /\ LET listing == fetchVMsForProject(qServers, qHostname)
     IN /\ qInstances' = TaggedInstances(listing.instances, qProject)
        /\ qDiagnostics' = listing.skipped
  /\ qPc' = "hardened"
  /\ QueryFrame

\* simple: fetchVMsForProject in the project loop, then the append loop; the
\* filter loop is the same
CallSimpleFetchVMsForProject ==
  /\ qPc = "input"
  /\ LET listing == fetchVMsForProject(qServers, qHostname)
     IN /\ qInstances' = TaggedInstances(listing.instances, qProject)
        /\ qDiagnostics' = listing.skipped
  /\ qPc' = "simple"
  /\ QueryFrame

NextQuery == CallFetchVMsForProject \/ CallSimpleFetchVMsForProject

SpecQuery == InitQuery /\ [][NextQuery]_allvars

(***************************************************************************)
(* SpecSsh: fetchRemoteVMListSSH alone, with the record of its attempts.   *)
(***************************************************************************)
InitSsh ==
  /\ sshPc = "start" /\ sshRetryIndex = 0 /\ sshRemoteVMs = <<>> /\ sshAttempts = <<>>
  /\ sshReturned = [vms |-> <<>>, err |-> NoError]
  /\ FindOff_Others /\ QueryOff /\ RetryOff
  /\ variant \in {"simple", "hardened"}
  /\ dryRun = TRUE /\ outputFormat = Table /\ regionSet = TRUE
  /\ expiredAt = ""
  /\ RunNotStarted

SshFrame ==
  UNCHANGED <<fPc, fC, fR, fMissing, readerVars, manageVars, poolVars, queryVars,
              retryVars, vars>>

\* hardened: one invocation of the function WithRetry retries: dial, session,
\* command, and on success remoteVMs = nil and the parsing loop; then what
\* WithRetry and fetchRemoteVMListSSH do with its result
SshAttempt ==
  /\ variant = "hardened" /\ sshPc = "start"
  /\ WithRetryEnters(RemoteRetryAttempts, sshRetryIndex)
  /\ \E reply \in RemoteReplies :
       LET next == WithRetry(RemoteRetryAttempts, sshRetryIndex, reply.err # NoError)
       IN /\ sshAttempts' = Append(sshAttempts, reply)
          /\ sshRemoteVMs' = IF reply.err # NoError THEN sshRemoteVMs ELSE reply.vms
          /\ CASE next = "sleep" ->
                    /\ sshRetryIndex' = sshRetryIndex + 1
                    /\ UNCHANGED <<sshPc, sshReturned>>
               [] next = "return_err" ->
                    /\ sshReturned' = [vms |-> <<>>, err |-> reply.err]
                    /\ sshPc' = "returned"
                    /\ sshRetryIndex' = 0
               [] next = "return_nil" ->
                    /\ sshReturned' = [vms |-> sshRemoteVMs', err |-> NoError]
                    /\ sshPc' = "returned"
                    /\ sshRetryIndex' = 0
  /\ SshFrame

\* simple: dial, session, command, each failure returned at once, else the
\* parsing loop and the list
Simple_SshAttempt ==
  /\ variant = "simple" /\ sshPc = "start"
  /\ \E reply \in RemoteReplies :
       /\ sshAttempts' = Append(sshAttempts, reply)
       /\ IF reply.err # NoError
            THEN /\ sshReturned' = [vms |-> <<>>, err |-> reply.err]
                 /\ UNCHANGED sshRemoteVMs
            ELSE /\ sshRemoteVMs' = reply.vms
                 /\ sshReturned' = [vms |-> reply.vms, err |-> NoError]
  /\ sshPc' = "returned"
  /\ UNCHANGED sshRetryIndex
  /\ SshFrame

NextSsh == SshAttempt \/ Simple_SshAttempt

SpecSsh == InitSsh /\ [][NextSsh]_allvars

(***************************************************************************)
(* SpecRetry: util.WithRetry for any attempts, sleep and behaviour of fn.  *)
(***************************************************************************)
\* largest value of attempts
MaxAttempts == 3

\* the values of sleep, in seconds
Sleeps == {0, 1, 2}

\* the errors fn may return
FnErrors == {"timeout", "refused"}

InitRetry ==
  /\ wrPc = "loop"
  /\ wrAttempts \in (-1)..MaxAttempts
  /\ wrSleep \in Sleeps
  /\ wrI = 0 /\ wrTrace = <<>> /\ wrResult = "pending"
  /\ FindOff_Others /\ QueryOff /\ SshOff
  /\ variant = "hardened" /\ dryRun = TRUE /\ outputFormat = Table /\ regionSet = TRUE
  /\ expiredAt = ""
  /\ RunNotStarted

RetryFrame ==
  UNCHANGED <<wrAttempts, wrSleep, fPc, fC, fR, fMissing, readerVars, manageVars,
              poolVars, queryVars, sshVars, vars>>

\* one pass of the loop body: fn(), then return err, or time.Sleep and
\* continue, or return nil
WithRetryPass ==
  /\ wrPc = "loop"
  /\ WithRetryEnters(wrAttempts, wrI)
  /\ \E err \in FnErrors \cup {NoError} :
       LET next == WithRetry(wrAttempts, wrI, err # NoError)
           invoked == Append(wrTrace, [kind |-> "fn", err |-> err, d |-> 0])
       IN CASE next = "sleep" ->
                 /\ wrTrace' = Append(invoked,
                      [kind |-> "sleep", err |-> NoError, d |-> Backoff(wrSleep, wrI)])
                 /\ wrI' = wrI + 1
                 /\ UNCHANGED <<wrPc, wrResult>>
            [] next = "return_err" ->
                 /\ wrTrace' = invoked
                 /\ wrResult' = err
                 /\ wrPc' = "returned"
                 /\ UNCHANGED wrI
            [] next = "return_nil" ->
                 /\ wrTrace' = invoked
                 /\ wrResult' = NoError
                 /\ wrPc' = "returned"
                 /\ UNCHANGED wrI
  /\ RetryFrame

\* the loop condition is false: the return nil after the loop
WithRetryLoopEnd ==
  /\ wrPc = "loop"
  /\ ~WithRetryEnters(wrAttempts, wrI)
  /\ wrResult' = NoError
  /\ wrPc' = "returned"
  /\ UNCHANGED <<wrI, wrTrace>>
  /\ RetryFrame

NextRetry == WithRetryPass \/ WithRetryLoopEnd

SpecRetry == InitRetry /\ [][NextRetry]_allvars

(***************************************************************************)
(* Spec: one run of Run, in either variant.                                *)
(***************************************************************************)
Init ==
  /\ variant \in {"simple", "hardened"}
  /\ dryRun \in BOOLEAN
  /\ outputFormat \in (IF variant = "hardened" THEN OutputFormats ELSE {Table})
  /\ regionSet \in BOOLEAN
  /\ expiredAt = ""
  /\ RunNotStarted
  /\ FindOff

Workers == DOMAIN wPc

Next ==
  \/ (RunCheckRegion /\ UNCHANGED fvars)
  \/ (Simple_RunAuthenticate /\ UNCHANGED fvars)
  \/ (Simple_RunVerifyAuthentication /\ UNCHANGED fvars)
  \/ (RunFetchHypervisorList /\ UNCHANGED fvars)
  \/ (Simple_RunFetchHypervisorList /\ UNCHANGED fvars)
  \/ (RunResolveHostname /\ UNCHANGED fvars)
  \/ (Simple_OsCreateClient /\ UNCHANGED fvars)
  \/ (Simple_OsFetchAllProjects /\ UNCHANGED fvars)
  \/ (Simple_OsFetchVMsForProject /\ UNCHANGED fvars)
  \/ (Simple_OsReturn /\ UNCHANGED fvars)
  \/ (OsFetchAllProjects /\ UNCHANGED fvars)
  \/ (\E w \in Workers : WorkerAcquire(w) /\ UNCHANGED fvars)
  \/ (\E w \in Workers : WorkerFetchVMsForProject(w) /\ UNCHANGED fvars)
  \/ (\E w \in Workers : WorkerLock(w) /\ UNCHANGED fvars)
  \/ (\E w \in Workers : WorkerAppend(w) /\ UNCHANGED fvars)
  \/ (OsFanoutReturn /\ UNCHANGED fvars)
  \/ (FetchRemoteVMListSSH /\ UNCHANGED fvars)
  \/ (Simple_FetchRemoteVMListSSH /\ UNCHANGED fvars)
  \/ (RunWait /\ UNCHANGED fvars)
  \/ (RunReport /\ UNCHANGED fvars)
  \/ (DeleteEnter /\ UNCHANGED fvars)
  \/ (DeleteScanln /\ UNCHANGED fvars)
  \/ (DeleteDial /\ UNCHANGED fvars)
  \/ (DeleteNewSession /\ UNCHANGED fvars)
  \/ (DeleteCommand /\ UNCHANGED fvars)
  \/ (DeleteLoopEnd /\ UNCHANGED fvars)

Spec == Init /\ [][Next]_allvars

(***************************************************************************)
(* The hardened Run under the deadline that main puts on ctx.              *)
(***************************************************************************)
\* the positions at which Run is suspended: the hypervisor listing, the wait
\* for the two inventory fetches (project and server listings, the remote
\* shell of the inventory), the confirmation read, the dial, the opening of a
\* session and the execution of a command
SuspensionPoints == {"fetchHypervisorList", "wait", "scanln", "dial", "loop", "command"}

\* the timer of context.WithTimeout fires while Run is suspended; nothing in
\* Run selects on ctx.Done(), so only the calls made with ctx notice it
DeadlineExpires ==
  /\ variant = "hardened" /\ expiredAt = ""
  /\ pc \in SuspensionPoints
  /\ expiredAt' = pc
  /\ UNCHANGED <<variant, dryRun, outputFormat, regionSet, mainVars, wg, osVars,
                 workerVars, remoteVars, deleteVars, reportVars>>

InitDeadline ==
  /\ variant = "hardened" /\ dryRun = FALSE /\ outputFormat = Table
  /\ regionSet = TRUE
  /\ expiredAt = ""
  /\ RunNotStarted
  /\ FindOff

NextDeadline ==
  \/ (RunCheckRegion /\ UNCHANGED fvars)
  \/ (RunFetchHypervisorList /\ UNCHANGED fvars)
  \/ (RunResolveHostname /\ UNCHANGED fvars)
  \/ (OsFetchAllProjects /\ UNCHANGED fvars)
  \/ (\E w \in Workers : WorkerAcquire(w) /\ UNCHANGED fvars)
  \/ (\E w \in Workers : WorkerFetchVMsForProject(w) /\ UNCHANGED fvars)
  \/ (\E w \in Workers : WorkerLock(w) /\ UNCHANGED fvars)
  \/ (\E w \in Workers : WorkerAppend(w) /\ UNCHANGED fvars)
  \/ (OsFanoutReturn /\ UNCHANGED fvars)
  \/ (FetchRemoteVMListSSH /\ UNCHANGED fvars)
  \/ (RunWait /\ UNCHANGED fvars)
  \/ (RunReport /\ UNCHANGED fvars)
  \/ (DeleteEnter /\ UNCHANGED fvars)
  \/ (DeleteScanln /\ UNCHANGED fvars)
  \/ (DeleteDial /\ UNCHANGED fvars)
  \/ (DeleteNewSession /\ UNCHANGED fvars)
  \/ (DeleteCommand /\ UNCHANGED fvars)
  \/ (DeleteLoopEnd /\ UNCHANGED fvars)
  \/ (DeadlineExpires /\ UNCHANGED fvars)

SpecDeadline == InitDeadline /\ [][NextDeadline]_allvars

(***************************************************************************)
(* Properties of findMissingVms (SpecFind).                                *)
(***************************************************************************)
\* two names that are equal when letter case is ignored
SameIgnoringCase(s, t) ==
  /\ Len(s) = Len(t)
  /\ \A k \in 1..Len(s) : ToLowerChar(s[k]) = ToLowerChar(t[k])

\* the positions of R whose name no InstanceName of C matches ignoring case
Unmatched(C, R) ==
  { i \in 1..Len(R) :
      \A j \in 1..Len(C) : ~SameIgnoringCase(C[j].InstanceName, R[i].Name) }

\* the record the claim prescribes for the remote element r
OrphanRecord(r) == [InstanceName |-> r.Name, TenantName |-> "Unknown", Status |-> r.Status]

\* how many positions of the list hold the record
Occurrences(list, rec) == Cardinality({ k \in 1..Len(list) : list[k] = rec })

\* C2: the hardened findMissingVms(C, R) returns exactly one record per element
\* of R whose name has no case-insensitive match among the InstanceName values
\* of C and none for any other element; the record carries the remote name
\* verbatim, the remote state as Status and TenantName "Unknown"; no record is
\* built from an element of C.
C2_ExactlyTheUnmatched ==
  fPc = "hardened" =>
    /\ Len(fMissing) = Cardinality(Unmatched(fC, fR))
    /\ \A i \in Unmatched(fC, fR) :
         Occurrences(fMissing, OrphanRecord(fR[i])) =
           Cardinality({ h \in Unmatched(fC, fR) : fR[h] = fR[i] })
    /\ \A k \in 1..Len(fMissing) :
         /\ fMissing[k].TenantName = "Unknown"
         /\ \E i \in Unmatched(fC, fR) : fMissing[k] = OrphanRecord(fR[i])

\* C2 witness: a call on full-length lists where one remote element is matched
\* only up to letter case and exactly one record is returned
C2_Witness ==
  /\ fPc = "hardened"
  /\ Len(fC) = 2 /\ Len(fR) = MaxR
  /\ \E i \in 1..Len(fR) : \E j \in 1..Len(fC) :
       /\ fR[i].Name # fC[j].InstanceName
       /\ SameIgnoringCase(fC[j].InstanceName, fR[i].Name)
  /\ Len(fMissing) = 1

\* C3: in both variants a remote VM whose name differs from some control-plane
\* InstanceName only in letter case is not reported as missing.
C3_CaseInsensitiveInBothVariants ==
  fPc \in {"hardened", "simple"} =>
    \A k \in 1..Len(fMissing) : \A j \in 1..Len(fC) :
      ~SameIgnoringCase(fC[j].InstanceName, fMissing[k].InstanceName)

(***************************************************************************)
(* Properties of one run of Run (Spec).                                    *)
(***************************************************************************)
Last(list) == list[Len(list)]

\* how many of the printed lines carry the tag
PrintedWith(tag) == Cardinality({ k \in 1..Len(printed) : printed[k].tag = tag })

\* C1: every VM name a deletion command is dispatched for is the name of a VM
\* of the remote inventory fetched in this run, and no instance of the
\* control-plane inventory fetched in this run has that name ignoring case.
C1_OnlyOrphansDeleted ==
  \A k \in 1..Len(dispatched) :
    LET name == dispatched[k].command.name
    IN /\ \E i \in 1..Len(remoteVMs) : remoteVMs[i].Name = name
       /\ \A j \in 1..Len(openstackInstances) :
            ~SameIgnoringCase(openstackInstances[j].InstanceName, name)

\* C4: deleteAbandonedVMs called with dryRun = TRUE and a non-empty list opens
\* no connection and no session, sends no deletion command, does not read the
\* confirmation; it prints exactly the given list, in order, as the would-delete
\* list, once, and returns.
C4_DryRunIsNonDestructive ==
  (dryRun /\ Len(abandonedVMs) > 0) =>
    /\ dials = <<>> /\ ~connOpen /\ openSessions = 0
    /\ sessionAttempts = <<>> /\ dispatched = <<>> /\ outcomes = <<>>
    /\ stdinReads = 0
    /\ pc \in {"delete", "returned"}
    /\ pc = "returned" =>
         /\ result = NoError
         /\ Last(printed) = [tag |-> "would delete", n |-> Len(abandonedVMs),
                             vms |-> abandonedVMs]
         /\ PrintedWith("would delete") = 1

\* C4 witness: a dry run that returned after reporting two VMs
C4_Witness ==
  /\ dryRun /\ pc = "returned"
  /\ Len(abandonedVMs) = 2
  /\ abandonedVMs[1].InstanceName # abandonedVMs[2].InstanceName
  /\ Last(printed).tag = "would delete"

\* C5: without dry-run and with a non-empty list, when the response read at
\* the prompt is not the confirmation token, deleteAbandonedVMs reports
\* "aborted", opens no connection and sends no deletion command.
C5_ConfirmationAbort ==
  (stdinReads > 0 /\ ~SameIgnoringCase(response, ConfirmToken)) =>
    /\ pc = "returned" /\ result = NoError
    /\ Last(printed).tag = "aborted" /\ PrintedWith("aborted") = 1
    /\ dials = <<>> /\ ~connOpen /\ openSessions = 0
    /\ sessionAttempts = <<>> /\ dispatched = <<>> /\ outcomes = <<>>

\* C5 witness: "no" typed at the prompt for two VMs
C5_Witness ==
  /\ ~dryRun /\ Len(abandonedVMs) = 2
  /\ stdinReads = 1 /\ inputLine = <<"n","o">>
  /\ pc = "returned" /\ Last(printed).tag = "aborted"

\* the deletion connection was established
ConnectionEstablished == dials # <<>> /\ Last(dials) = NoError

\* the answer to the deletion command sent on the session of the k-th attempt
ReplyOfAttempt(k) ==
  dispatched[Cardinality({ j \in 1..k : sessionAttempts[j].err = NoError })].reply

\* the k-th result line is the one the claim prescribes for the k-th VM
OutcomeAsClaimed(k) ==
  /\ outcomes[k].vm = abandonedVMs[k].InstanceName
  /\ IF sessionAttempts[k].err # NoError
       THEN outcomes[k].status = "error"
       ELSE IF ReplyOfAttempt(k).err # NoError
         THEN outcomes[k].status = "error" /\ outcomes[k].output = ReplyOfAttempt(k).output
         ELSE outcomes[k].status = "success"

\* C6: once the confirmation is accepted and the connection established, the
\* VMs of the list get one session attempt each, in list order, whatever the
\* earlier attempts gave; a VM whose session open or command fails gets an error
\* result line (with the command output when the command failed), a VM whose
\* command succeeds a success line; one result line per VM.
C6_PerVMFailureIsolation ==
  ConnectionEstablished =>
    /\ Len(sessionAttempts) <= Len(abandonedVMs)
    /\ \A k \in 1..Len(sessionAttempts) :
         sessionAttempts[k].name = abandonedVMs[k].InstanceName
    /\ Len(outcomes) = IF pc = "command" THEN Len(sessionAttempts) - 1
                                         ELSE Len(sessionAttempts)
    /\ \A k \in 1..Len(outcomes) : OutcomeAsClaimed(k)
    /\ pc = "returned" =>
         /\ Len(sessionAttempts) = Len(abandonedVMs)
         /\ Len(outcomes) = Len(abandonedVMs)

\* C6 witness: "confirm" typed, the first command fails, the second succeeds
C6_Witness ==
  /\ variant = "hardened" /\ inputLine = Confirm
  /\ pc = "returned" /\ Len(abandonedVMs) = 2
  /\ Len(sessionAttempts) = 2
  /\ outcomes[1].status = "error" /\ outcomes[1].output # ""
  /\ outcomes[2].status = "success"

\* C7: a deletion command is sent only if the whole line typed at the prompt
\* (blanks around it aside) equals the confirmation token ignoring case; every
\* other line, one that goes on after the token included, aborts the cleanup.
C7_WholeLineIsTheToken ==
  (dials # <<>> \/ dispatched # <<>>) =>
    SameIgnoringCase(TrimSpace(inputLine), ConfirmToken)

\* C8: when the dial of the deletion phase fails, no session is opened, no
\* deletion command is sent for any VM, and the connection error is printed once.
C8_DialFailureAbortsDeletion ==
  (dials # <<>> /\ dials[1] # NoError) =>
    /\ Len(dials) = 1
    /\ ~connOpen /\ openSessions = 0
    /\ sessionAttempts = <<>> /\ dispatched = <<>> /\ outcomes = <<>>
    /\ pc = "returned" /\ result = NoError
    /\ PrintedWith("SSH connection error") = 1

\* C8 witness: the dial failed with two VMs to delete
C8_Witness ==
  /\ Len(dials) = 1 /\ dials[1] # NoError
  /\ Len(abandonedVMs) = 2 /\ pc = "returned"

\* the instance the reader builds from the i-th name of the k-th project's listing
InstanceOf(k, i) ==
  [InstanceName |-> projResult[k].instances[i], TenantName |-> projectList[k].Name,
   Status |-> <<>>]

\* the pairs (project, position) of the names the listings gave
ListedPositions ==
  UNION { { <<k, i>> : i \in 1..Len(projResult[k].instances) } : k \in DOMAIN projResult }

\* list holds exactly the instances of the listings that succeeded, each as
\* many times as the listings gave it
HoldsTheListedInstances(list) ==
  /\ Len(list) = Cardinality(ListedPositions)
  /\ \A ki \in ListedPositions :
       Occurrences(list, InstanceOf(ki[1], ki[2])) =
         Cardinality({ hj \in ListedPositions :
                         InstanceOf(hj[1], hj[2]) = InstanceOf(ki[1], ki[2]) })

\* the step in which fetchOpenStackVMList returns
OsReturns == osPc # "done" /\ osPc' = "done"

\* the project list had been obtained when the step was taken
ProjectListObtained == osPc \in {"loop", "wait"}

\* C9 (amended): once the project list is obtained fetchOpenStackVMList returns
\* success, after every project was queried, with exactly the instances of the
\* projects whose listing succeeded; it returns an error only when a step
\* before the per-project queries fails: listing the projects or, in the
\* simple variant, reading OS_REGION_NAME or creating the compute client.
C9_PerProjectErrorIsolation ==
  [][ OsReturns =>
        IF ProjectListObtained
          THEN /\ errOpenStack' = NoError
               /\ \A k \in DOMAIN projResult : projResult[k].state \in {"ok", "failed"}
               /\ \A k \in DOMAIN projResult :
                    projResult[k].state = "failed" => projResult[k].instances = <<>>
               /\ HoldsTheListedInstances(openstackInstances')
          ELSE /\ openstackInstances' = <<>>
               /\ errOpenStack' \in
                    {"error fetching projects"} \cup
                    (IF variant = "simple"
                       THEN {"OS_REGION_NAME not set", "failed to create compute client"}
                       ELSE {})
    ]_allvars

\* C9 witness: the listing of the first project failed, the second gave an
\* instance, and the function returned that instance and no error
C9_Witness ==
  /\ osPc = "done" /\ errOpenStack = NoError
  /\ Len(projectList) = 2
  /\ projResult[1].state = "failed"
  /\ projResult[2].state = "ok" /\ Len(projResult[2].instances) = 1
  /\ Len(openstackInstances) = 1 /\ openstackInstances[1].TenantName = "p2"

\* C9 as stated: fetchOpenStackVMList returns an error only when listing the
\* projects fails.
C9_ErrorOnlyWhenListingProjectsFails ==
  (osPc = "done" /\ errOpenStack # NoError) => errOpenStack = "error fetching projects"

\* a line of the reconciliation report or of the cleanup was printed (the
\* simple variant prints one line when the authentication is verified)
ReportPrinted == \E k \in 1..Len(printed) : printed[k].tag # "identity-ok"

\* one of the two fetches returned an error
FetchFailed == errOpenStack # NoError \/ errRemote # NoError

\* C10: findMissingVms is not called before both fetches have returned; when a
\* fetch returned an error Run returns the error naming that fetch, and neither
\* reconciles, nor reports, nor prompts, nor deletes.
C10_JoinBarrier ==
  /\ (reconciled > 0 \/ ReportPrinted
        \/ pc \in {"report", "delete", "scanln", "dial", "loop", "command"}) =>
       osPc = "done" /\ rPc = "done" /\ wg = 0
  /\ FetchFailed =>
       /\ reconciled = 0 /\ ~ReportPrinted /\ abandonedVMs = <<>>
       /\ stdinReads = 0 /\ dials = <<>> /\ sessionAttempts = <<>> /\ dispatched = <<>>
       /\ pc \in {"wait", "returned"}
       /\ pc = "returned" =>
            /\ osPc = "done" /\ rPc = "done"
            /\ result = IF errOpenStack # NoError
                          THEN "error fetching OpenStack VM list"
                          ELSE "error fetching remote VM list"

\* C10 witness: the remote fetch failed while the control-plane fetch gave an
\* instance, and Run returned the error of the remote fetch
C10_Witness ==
  /\ pc = "returned"
  /\ errRemote # NoError /\ errOpenStack = NoError
  /\ Len(openstackInstances) > 0
  /\ result = "error fetching remote VM list"

(***************************************************************************)
(* Properties of Run under the deadline (SpecDeadline).                    *)
(***************************************************************************)
\* C11: once the deadline has expired while Run was suspended, Run ends with
\* an error, and no cleanup step starts after the expiry: when it expired
\* before the report no confirmation is prompted or read and no connection is
\* dialled, and when it expired at the confirmation read no connection is
\* dialled.
C11_DeadlineBoundsTheRun ==
  expiredAt # "" =>
    /\ pc = "returned" => result # NoError
    /\ expiredAt \in {"fetchHypervisorList", "wait"} =>
         /\ PrintedWith("prompt") = 0 /\ stdinReads = 0
         /\ dials = <<>> /\ dispatched = <<>>
    /\ expiredAt = "scanln" => dials = <<>> /\ dispatched = <<>>

(***************************************************************************)
(* Properties of Run (Spec), continued.                                    *)
(***************************************************************************)
\* no entry of the fetched catalog has exactly the given IP as its host IP
NoCatalogEntryMatches ==
  \A k \in DOMAIN hypervisorsList : hypervisorsList[k].HostIP # TargetIP

\* the resolution error of Run
ResolutionError == "no matching hypervisor found for IP"

\* nothing after the resolution has been started
NothingStarted ==
  /\ osPc = "idle" /\ rPc = "idle" /\ wg = 0
  /\ openstackInstances = <<>> /\ remoteVMs = <<>>
  /\ stdinReads = 0 /\ dials = <<>> /\ sessionAttempts = <<>> /\ dispatched = <<>>
  /\ PrintedWith("prompt") = 0 /\ reconciled = 0

\* C12: the resolution compares the given IP exactly with the host IP of each
\* catalog entry: when no entry matches, Run returns the resolution error with
\* neither inventory fetch started, no connection opened and no cleanup step
\* run; otherwise the hostname is that of the first entry that matches. A run
\* that has returned the resolution error has started none of these.
C12_ResolutionIsExactAndFailureStopsRun ==
  /\ [][ pc = "resolveHostname" =>
           IF NoCatalogEntryMatches
             THEN pc' = "returned" /\ result' = ResolutionError /\ NothingStarted'
             ELSE \E k \in DOMAIN hypervisorsList :
                    /\ hypervisorsList[k].HostIP = TargetIP
                    /\ \A j \in 1..(k - 1) : hypervisorsList[j].HostIP # TargetIP
                    /\ hypervisorHostname' = hypervisorsList[k].HypervisorHostname
       ]_allvars
  /\ [](pc = "returned" /\ result = ResolutionError => NothingStarted)

\* Run has returned the resolution error on a catalog that has entries, one of
\* them with a host IP that only begins with the given IP
C12_Witness ==
  /\ pc = "returned" /\ result = ResolutionError
  /\ \E k \in DOMAIN hypervisorsList : hypervisorsList[k].HostIP = "10.0.0.50"

\* the configuration error of a run without OS_REGION_NAME
RegionError == "OS_REGION_NAME not set"

\* what Run may have returned before it queries the hypervisor catalog
ErrorsBeforeCatalog ==
  {RegionError, "error authenticating OpenStack", "authentication error"}

\* C13: in a run without OS_REGION_NAME, Run never gets past the point where
\* it queries the hypervisor catalog: it returns an error raised before that
\* query, and no project or instance listing and no remote-shell connection
\* has been started, in both variants of Run.
C13_MissingRegionFailsAtStart ==
  ~regionSet =>
    /\ pc \in {"start", "verify", "fetchHypervisorList", "returned"}
    /\ pc = "returned" => result \in ErrorsBeforeCatalog
    /\ osPc = "idle" /\ rPc = "idle"

\* main: the exit code of the process for what Run returned
ExitCode(err) == IF err # NoError THEN 1 ELSE 0

\* C14: a run that returned with an empty orphan list, in dry-run mode with
\* orphans, or after the user aborted at the prompt returned no error (exit
\* code 0); a run that returned without a resolved hypervisor (catalog failure,
\* resolution failure) or with a failed inventory fetch returned an error
\* (exit code not 0); and a run returns no error only after its report.
C14_CleanAndFailedTermination ==
  pc = "returned" =>
    /\ reconciled > 0 /\ Reconcile(openstackInstances, remoteVMs) = <<>>
         => ExitCode(result) = 0
    /\ dryRun /\ abandonedVMs # <<>> => ExitCode(result) = 0
    /\ printed # <<>> /\ Last(printed).tag = "aborted" => ExitCode(result) = 0
    /\ hypervisorHostname = <<>> => ExitCode(result) # 0
    /\ errOpenStack # NoError \/ errRemote # NoError => ExitCode(result) # 0
    /\ ExitCode(result) = 0 => reconciled > 0

\* Run has returned an error after the remote inventory fetch alone failed
C14_Witness ==
  /\ pc = "returned" /\ result # NoError
  /\ errOpenStack = NoError /\ errRemote # NoError

\* C15: once Run has printed its report, the printed control-plane and remote
\* counts are the lengths of the two fetched lists, the printed missing count
\* is the length of findMissingVms of the two lists, the itemised list and the
\* list handed to deleteAbandonedVMs are that same sequence, the table report
\* prints each count once, and deleteAbandonedVMs has been called if and only
\* if that sequence is not empty.
C15_ReportAndCleanupAgree ==
  reconciled > 0 =>
    LET orphans == Reconcile(openstackInstances, remoteVMs)
    IN /\ \A k \in DOMAIN printed :
            /\ printed[k].tag = "OpenStack VM count"
                 => printed[k].n = Len(openstackInstances)
            /\ printed[k].tag = "Remote VM count" => printed[k].n = Len(remoteVMs)
            /\ printed[k].tag = "Missing VM count" => printed[k].n = Len(orphans)
            /\ printed[k].tag \in {"Missing VMs", "json missing_vms"}
                 => printed[k].vms = orphans
       /\ IF variant = "hardened" /\ IsJson(outputFormat)
            THEN PrintedWith("json missing_vms") = 1
            ELSE /\ PrintedWith("OpenStack VM count") = 1
                 /\ PrintedWith("Remote VM count") = 1
                 /\ PrintedWith("Missing VM count") = 1
                 /\ PrintedWith("Missing VMs") = IF orphans = <<>> THEN 0 ELSE 1
       /\ abandonedVMs = orphans
       /\ pc \in {"delete", "scanln", "dial", "loop", "command"} => orphans # <<>>

\* Run has printed a table report of one orphan among two remote VMs and one
\* control-plane instance, and has called deleteAbandonedVMs
C15_Witness ==
  /\ PrintedWith("Missing VMs") = 1 /\ pc = "scanln"
  /\ Len(abandonedVMs) = 1 /\ Len(remoteVMs) = 2 /\ Len(openstackInstances) = 1

(***************************************************************************)
(* Properties of the remote inventory reader (SpecReader).                 *)
(***************************************************************************)
\* the name=... field of a line, as the reader would take it
NameOfLine(line) == vmInfoFrom(Split(TrimSpace(line), ","), 1, <<>>)[NameKey]

\* C16: fetchRemoteVMListSSH returns no VM of a line that matches the
\* management-partition pattern, it returns one VM for each other line that
\* is not blank, and for the three lines name=vm1,state=Running /
\* name=ltc01-nova,state=Running / blank it returns exactly (vm1, Running).
C16_ManagementPartitionsExcluded ==
  readerPc \in {"hardened", "simple"} =>
    /\ \A k \in DOMAIN pvmctlLines :
         MatchesLtcNova(pvmctlLines[k]) =>
           \A n \in DOMAIN readerVMs : readerVMs[n].Name # NameOfLine(pvmctlLines[k])
    /\ Len(readerVMs) =
         Cardinality({ k \in DOMAIN pvmctlLines :
                         /\ TrimSpace(pvmctlLines[k]) # <<>>
                         /\ ~MatchesLtcNova(pvmctlLines[k]) })
    /\ pvmctlLines = ExampleLines =>
         readerVMs = << [Name |-> <<"v","m","1">>,
                         Status |-> <<"R","u","n","n","i","n","g">>] >>

\* the reader has returned one VM for two lines, one of a management partition
C16_Witness ==
  /\ readerPc = "hardened" /\ Len(pvmctlLines) = 2 /\ Len(readerVMs) = 1
  /\ \E k \in DOMAIN pvmctlLines : pvmctlLines[k] \in ManagementLines

(***************************************************************************)
(* Properties of vm manage (SpecManage).                                   *)
(***************************************************************************)
\* C17: with cfg.DryRun set, whatever the action and the entries of --vm, no
\* state-changing compute API call is made and nothing is read from standard
\* input.
C17_DryRunManageChangesNothing ==
  mDryRun =>
    /\ \A c \in apiCalls : c.call \notin StateChangingCalls
    /\ mStdinReads = 0

\* a dry run of an action over two entries has returned with both handlers
\* having run successfully
C17_Witness ==
  /\ mDryRun /\ mPc = "returned" /\ mErr = NoError
  /\ Len(mResults) = 2
  /\ \A n \in DOMAIN mResults : mResults[n].Status = "success"

(***************************************************************************)
(* Properties of findMissingVms (SpecFind), continued.                     *)
(***************************************************************************)
\* the records of the elements of R at the positions P, in the order of R
RECURSIVE RecordsAt(_, _, _)
RecordsAt(R, P, i) ==
  IF i > Len(R) THEN <<>>
  ELSE (IF i \in P THEN <<OrphanRecord(R[i])>> ELSE <<>>) \o RecordsAt(R, P, i + 1)

\* the positions of R whose name is the InstanceName of no element of C
UnmatchedExactly(C, R) ==
  { i \in 1..Len(R) : \A j \in 1..Len(C) : C[j].InstanceName # R[i].Name }

\* the rearrangements of the list C
Rearrangements(C) ==
  { [k \in 1..Len(C) |-> C[p[k]]] :
      p \in { q \in [1..Len(C) -> 1..Len(C)] :
                \A a, b \in 1..Len(C) : q[a] = q[b] => a = b } }

\* C18: in both variants the list returned holds the records of the unmatched
\* elements of R at their positions in the order of R, one record for each
\* position (so a name that is unmatched at k positions has k records), and
\* the same list is returned for every rearrangement of C.
C18_OrderPreserving ==
  /\ fPc = "hardened" =>
       /\ fMissing = RecordsAt(fR, Unmatched(fC, fR), 1)
       /\ \A C \in Rearrangements(fC) : findMissingVms(C, fR) = fMissing
  /\ fPc = "simple" =>
       /\ fMissing = RecordsAt(fR, UnmatchedExactly(fC, fR), 1)
       /\ \A C \in Rearrangements(fC) : Simple_findMissingVms(C, fR) = fMissing

\* a call with two different control-plane instances and two remote VMs of one
\* name in different states that returned two records
C18_Witness ==
  /\ fPc = "hardened" /\ Len(fC) = 2 /\ fC[1] # fC[2]
  /\ Len(fMissing) = 2 /\ Len(fR) = 2
  /\ fR[1].Name = <<"v","2">> /\ fR[2].Name = <<"v","2">>
  /\ fR[1].Status # fR[2].Status

(***************************************************************************)
(* Properties of the goroutines of fetchOpenStackVMList (SpecPool).        *)
(***************************************************************************)
\* the goroutines that are inside fetchVMsForProject
QueriesInProgress ==
  poolAt[PoolPosition("acquired", 0)] + poolAt[PoolPosition("acquired", 1)]
  + poolAt[PoolPosition("acquired", 2)]

\* C19: whatever the number of projects, at most 10 goroutines are inside
\* fetchVMsForProject at the same time; the goroutines between sem <- and
\* <-sem are as many as the tokens in sem, which are at most 10.
C19_BoundedFanOut ==
  /\ QueriesInProgress <= 10
  /\ PoolHolders = poolSem
  /\ poolSem <= SemCapacity

\* ten queries are in progress while another goroutine waits for a token
C19_Witness ==
  /\ QueriesInProgress = 10
  /\ poolAt[PoolPosition("start", 0)] > 0

(***************************************************************************)
(* Properties of Run (Spec): the workers of fetchOpenStackVMList.          *)
(***************************************************************************)
\* C20: when the hardened fetchOpenStackVMList has returned the list of a
\* fan-out, every worker has returned, the mutex is free and the list holds
\* exactly the instances the successful listings gave, each as many times as
\* they gave it and tagged with the name of its project; the list of the
\* function changes only in a step of the worker that holds the mutex, while
\* the function waits; and nothing changes the list after the return.
C20_NoLostOrDuplicatedResults ==
  /\ [](variant = "hardened" /\ osPc = "done" /\ errOpenStack = NoError =>
          /\ \A w \in Workers : wPc[w] = "done"
          /\ mu = 0
          /\ HoldsTheListedInstances(openstackInstances))
  /\ [][ variant = "hardened" /\ instanceNames' # instanceNames /\ osPc' # "done" =>
           /\ osPc = "wait"
           /\ \E w \in Workers :
                /\ mu = w /\ wPc[w] = "locked" /\ wPc'[w] = "done"
                /\ instanceNames' =
                     instanceNames \o [i \in 1..Len(projResult[w].instances) |->
                                         InstanceOf(w, i)]
       ]_allvars
  /\ [][ variant = "hardened" /\ osPc = "done" =>
           openstackInstances' = openstackInstances /\ instanceNames' = instanceNames
       ]_allvars

\* the function has returned the instances of two projects, those of the
\* second project first
C20_Witness ==
  /\ variant = "hardened" /\ osPc = "done" /\ errOpenStack = NoError
  /\ Len(projectList) = 2 /\ Len(openstackInstances) >= 2
  /\ openstackInstances[1].TenantName = projectList[2].Name
  /\ openstackInstances[Len(openstackInstances)].TenantName = projectList[1].Name

(***************************************************************************)
(* Properties of fetchVMsForProject (SpecQuery).                           *)
(***************************************************************************)
\* the positions of the listing whose server is on the target hypervisor,
\* letter case ignored, and has the instance name (named) or lacks it
OnTarget(named) ==
  { k \in 1..Len(qServers) :
      /\ SameIgnoringCase(qServers[k].HypervisorHostname, qHostname)
      /\ (qServers[k].InstanceName # <<>>) = named }

\* the control-plane instance the claim prescribes for the server at position k
InstanceOfServer(k) ==
  [InstanceName |-> qServers[k].InstanceName, TenantName |-> qProject.Name, Status |-> <<>>]

\* C21: a server of the listing becomes a control-plane instance if and only
\* if its hypervisor hostname equals the target hostname ignoring letter case
\* and its instance name is not empty: the list appended for the project holds
\* one instance per such server, with the server's instance name, the name of
\* the project as tenant and an empty status, and nothing else; the servers
\* on the target without an instance name are exactly those a diagnostic
\* names.
C21_InstanceFiltering ==
  qPc \in {"hardened", "simple"} =>
    /\ Len(qInstances) = Cardinality(OnTarget(TRUE))
    /\ \A k \in OnTarget(TRUE) :
         Occurrences(qInstances, InstanceOfServer(k)) =
           Cardinality({ j \in OnTarget(TRUE) : InstanceOfServer(j) = InstanceOfServer(k) })
    /\ \A i \in 1..Len(qInstances) :
         /\ qInstances[i].TenantName = qProject.Name
         /\ qInstances[i].Status = <<>>
         /\ qInstances[i].InstanceName # <<>>
    /\ qDiagnostics = { qServers[k].Name : k \in OnTarget(FALSE) }

\* a listing of two servers on the target hypervisor, spelled in another
\* case than the target: one is kept, the other has no instance name
C21_Witness ==
  /\ qPc = "hardened" /\ Len(qServers) = 2
  /\ qHostname = HostH1
  /\ qServers[1].HypervisorHostname = HostH1Upper
  /\ qServers[2].HypervisorHostname = HostH1Upper
  /\ qServers[1].InstanceName = <<>> /\ qServers[2].InstanceName # <<>>
  /\ Len(qInstances) = 1 /\ qDiagnostics = {qServers[1].Name}

(***************************************************************************)
(* Properties of the parsing loop of fetchRemoteVMListSSH (SpecParse).     *)
(***************************************************************************)
\* the positions of the commas of the line, with the two ends
Commas(line) ==
  {0, Len(line) + 1} \cup { c \in 1..Len(line) : line[c] = "," }

\* the comma-separated fields of the trimmed line: the stretches between two
\* neighbouring commas (or ends)
FieldsOfLine(line) ==
  LET t == TrimSpace(line)
  IN { SubSeq(t, a + 1, b - 1) : <<a, b>> \in
         { ab \in Commas(t) \X Commas(t) :
             /\ ab[1] < ab[2]
             /\ \A c \in Commas(t) : ~(ab[1] < c /\ c < ab[2]) } }

\* the values the key=value fields of the line give the key: a key=value
\* field has one "=", the key before it and the value after it, both trimmed
ValuesOfKey(line, key) ==
  { TrimSpace(SubSeq(f, e + 1, Len(f))) : <<f, e>> \in
      { fe \in FieldsOfLine(line) \X (1..Len(line)) :
          /\ fe[2] <= Len(fe[1])
          /\ fe[1][fe[2]] = "="
          /\ \A o \in 1..Len(fe[1]) : fe[1][o] = "=" => o = fe[2]
          /\ TrimSpace(SubSeq(fe[1], 1, fe[2] - 1)) = key } }

\* the lines that yield an instance: not blank, with both keys
YieldingLines ==
  { k \in 1..Len(pvmctlLines) :
      /\ TrimSpace(pvmctlLines[k]) # <<>>
      /\ ValuesOfKey(pvmctlLines[k], NameKey) # {}
      /\ ValuesOfKey(pvmctlLines[k], StateKey) # {} }

\* the i-th yielding line
YieldingLine(i) ==
  CHOOSE k \in YieldingLines : Cardinality({ j \in YieldingLines : j < k }) = i - 1

\* C22: in both variants the list returned has one instance for each line
\* that is not blank after trimming and has both a name and a state key among
\* its comma-separated key=value fields, none for any other line, in the
\* order of the lines, with a trimmed value of the line's name key as Name and
\* a trimmed value of its state key as Status.
C22_LineParsing ==
  readerPc \in {"hardened", "simple"} =>
    /\ Len(readerVMs) = Cardinality(YieldingLines)
    /\ \A i \in 1..Len(readerVMs) :
         /\ readerVMs[i].Name \in ValuesOfKey(pvmctlLines[YieldingLine(i)], NameKey)
         /\ readerVMs[i].Status \in ValuesOfKey(pvmctlLines[YieldingLine(i)], StateKey)

\* two lines were read, the first has no state key, the second has blanks
\* around its fields: one instance, of the second line
C22_Witness ==
  /\ readerPc = "hardened" /\ Len(pvmctlLines) = 2
  /\ pvmctlLines[1] = KeyValue(NameKey, <<"v","1">>)
  /\ pvmctlLines[2] # TrimSpace(pvmctlLines[2])
  /\ readerVMs = << [Name |-> <<"v","2">>, Status |-> Running] >>

(***************************************************************************)
(* Properties of fetchRemoteVMListSSH (SpecSsh).                           *)
(***************************************************************************)
\* the attempt failed: its dial, its session open or its command did
AttemptFailed(k) ==
  sshAttempts[k].err \in {"SSH connection failed", "SSH session failed", "command failed"}

\* C23: the hardened function makes at most 3 attempts and none after a
\* successful one; it returns an error, with no instances, if and only if it
\* made 3 attempts and all failed; otherwise what it returns is the list
\* parsed from the output of its first successful attempt, which is its last
\* attempt. The simple function makes exactly one attempt and returns that
\* attempt's error with no instances, or that attempt's list.
C23_RemoteReaderRetry ==
  /\ Len(sshAttempts) <= (IF variant = "hardened" THEN 3 ELSE 1)
  /\ \A k \in 1..(Len(sshAttempts) - 1) : AttemptFailed(k)
  /\ sshPc = "start" => \A k \in 1..Len(sshAttempts) : AttemptFailed(k)
  /\ sshPc = "returned" =>
       /\ Len(sshAttempts) >= 1
       /\ variant = "hardened" =>
            (sshReturned.err # NoError <=>
               Len(sshAttempts) = 3 /\ \A k \in 1..3 : AttemptFailed(k))
       /\ variant = "simple" =>
            /\ Len(sshAttempts) = 1
            /\ sshReturned.err = sshAttempts[1].err
       /\ sshReturned.err # NoError => sshReturned.vms = <<>>
       /\ sshReturned.err = NoError =>
            /\ ~AttemptFailed(Len(sshAttempts))
            /\ sshReturned.vms = sshAttempts[Len(sshAttempts)].vms

\* the hardened function returned a VM on its third attempt, after a failed
\* dial and a failed command
C23_Witness ==
  /\ variant = "hardened" /\ sshPc = "returned" /\ Len(sshAttempts) = 3
  /\ sshAttempts[1].err = "SSH connection failed"
  /\ sshAttempts[2].err = "command failed"
  /\ sshReturned.err = NoError /\ Len(sshReturned.vms) = 1

(***************************************************************************)
(* Properties of util.WithRetry (SpecRetry).                               *)
(***************************************************************************)
\* the results of the invocations of fn, in order
Invocations == SelectSeq(wrTrace, LAMBDA e : e.kind = "fn")

\* the position in the trace of invocation number k (1-based)
InvocationAt(k) ==
  CHOOSE p \in 1..Len(wrTrace) :
    /\ wrTrace[p].kind = "fn"
    /\ Cardinality({ q \in 1..p : wrTrace[q].kind = "fn" }) = k

\* C24: for attempts >= 1, fn is invoked at most attempts times and at least
\* once before the return, and not again after an invocation that returned
\* nil; the result is nil if and only if some invocation returned nil, and
\* otherwise it is the error of invocation number attempts; a failed
\* invocation number k < attempts is followed at once by one wait of
\* k * sleep, and there is no other wait: none after a nil, none after the
\* failure of invocation number attempts.
C24_BoundedRetryLinearBackoff ==
  wrAttempts >= 1 =>
    /\ Len(Invocations) <= wrAttempts
    /\ \A k \in 1..(Len(Invocations) - 1) : Invocations[k].err # NoError
    /\ wrPc = "returned" =>
         /\ Len(Invocations) >= 1
         /\ wrResult = NoError <=> \E k \in 1..Len(Invocations) : Invocations[k].err = NoError
         /\ wrResult # NoError =>
              /\ Len(Invocations) = wrAttempts
              /\ wrResult = Invocations[wrAttempts].err
    /\ \A k \in 1..Len(Invocations) :
         LET p == InvocationAt(k)
         IN IF Invocations[k].err # NoError /\ k < wrAttempts
              THEN /\ p + 1 <= Len(wrTrace)
                   /\ wrTrace[p + 1].kind = "sleep"
                   /\ wrTrace[p + 1].d = k * wrSleep
              ELSE p = Len(wrTrace)
    /\ Cardinality({ p \in 1..Len(wrTrace) : wrTrace[p].kind = "sleep" })
         = Cardinality({ k \in 1..Len(Invocations) :
                           Invocations[k].err # NoError /\ k < wrAttempts })

\* three attempts that all failed, with the waits of one and of two sleeps,
\* and the error of the third returned
C24_Witness ==
  /\ wrAttempts = 3 /\ wrSleep = 2 /\ wrPc = "returned"
  /\ Len(wrTrace) = 5
  /\ wrTrace[2].d = 2 /\ wrTrace[4].d = 4
  /\ wrTrace[1].err = "timeout" /\ wrTrace[5].err = "refused"
  /\ wrResult = "refused"

\* C30: with attempts <= 0, WithRetry never invokes fn (and never waits) and
\* returns nil.
C30_NoAttemptsIsSuccess ==
  wrAttempts <= 0 =>
    /\ wrTrace = <<>>
    /\ wrPc = "returned" => wrResult = NoError
    /\ wrResult \in {"pending", NoError}

\* WithRetry has returned for a negative attempts
C30_Witness ==
  /\ wrAttempts < 0 /\ wrPc = "returned" /\ wrResult = NoError /\ wrTrace = <<>>

(***************************************************************************)
(* Properties of Run (Spec): the deletion loop.                            *)
(***************************************************************************)
\* the positions of the list for which a session was opened
SessionsOpened == { k \in 1..Len(sessionAttempts) : sessionAttempts[k].err = NoError }

\* the position of the list whose session is the d-th session opened
OpenedAt(d) ==
  CHOOSE k \in SessionsOpened : Cardinality({ j \in SessionsOpened : j <= k }) = d

\* C25: the deletion phase dials at most once, and exactly once (with success)
\* before any session is opened; the k-th session open is for the k-th orphan
\* of the list; every session opened carries one deletion command, that of
\* its orphan, so the commands follow the order of the list; a step dispatches
\* at most one command, only on the session just opened, and the command has
\* returned when the next session is opened.
C25_SequentialDeletion ==
  /\ [](/\ Len(dials) <= 1
        /\ (sessionAttempts # <<>> \/ pc \in {"loop", "command"}) =>
             Len(dials) = 1 /\ dials[1] = NoError
        /\ Len(sessionAttempts) <= Len(abandonedVMs)
        /\ \A k \in 1..Len(sessionAttempts) :
             sessionAttempts[k].name = abandonedVMs[k].InstanceName
        /\ Len(dispatched) =
             Cardinality(SessionsOpened) - (IF pc = "command" THEN 1 ELSE 0)
        /\ \A d \in 1..Len(dispatched) :
             dispatched[d].command.name = abandonedVMs[OpenedAt(d)].InstanceName)
  /\ [][ dispatched' # dispatched =>
           /\ pc = "command" /\ pc' = "loop"
           /\ Last(sessionAttempts).err = NoError
           /\ Len(sessionAttempts) = dIdx
           /\ dispatched' = Append(dispatched, Last(dispatched'))
       ]_allvars
  /\ [][ sessionAttempts' # sessionAttempts =>
           /\ pc = "loop"
           /\ Len(dispatched) = Cardinality(SessionsOpened)
           /\ dispatched' = dispatched
       ]_allvars

\* two orphans of different names were deleted over one connection, the
\* first of the list first
C25_Witness ==
  /\ pc = "returned" /\ Len(abandonedVMs) = 2 /\ Len(dials) = 1
  /\ Len(dispatched) = 2
  /\ abandonedVMs[1].InstanceName # abandonedVMs[2].InstanceName
  /\ dispatched[1].command.name = abandonedVMs[1].InstanceName
  /\ dispatched[2].command.name = abandonedVMs[2].InstanceName

\* the error of client.NewSession() on a connection that has gone away: the
\* channel-open request gets no answer
BrokenConnection(err) == err = "ssh: unexpected packet"

\* C26: once a session open on the deletion connection has failed because the
\* connection is broken, no further session open is attempted: a session open
\* that failed so is the last one.
C26_BrokenConnectionNotReused ==
  \A k \in 1..Len(sessionAttempts) :
    BrokenConnection(sessionAttempts[k].err) => k = Len(sessionAttempts)

\* the cleanup phase was entered: both inventories fetched, the report printed
CleanupEntered == reconciled > 0 /\ abandonedVMs # <<>>

\* C27: once the report is printed nothing makes Run return an error: Run
\* returns nil (exit code 0) whether the dial of the deletion phase failed,
\* session opens failed or deletion commands failed, all of them included;
\* the failed dial is printed once, and every failed session open and every
\* failed command has its error line.
C27_CleanupFailureKeepsResult ==
  /\ reconciled > 0 => result \in {"pending", NoError}
  /\ (reconciled > 0 /\ pc = "returned") => ExitCode(result) = 0
  /\ (dials # <<>> /\ dials[1] # NoError) => PrintedWith("SSH connection error") = 1
  /\ \A k \in 1..Len(outcomes) :
       sessionAttempts[k].err # NoError => outcomes[k].status = "error"
  /\ \A d \in 1..Len(dispatched) :
       dispatched[d].reply.err # NoError => outcomes[OpenedAt(d)].status = "error"

\* Run has returned nil after the deletion commands of both orphans failed
C27_Witness ==
  /\ CleanupEntered /\ pc = "returned" /\ result = NoError
  /\ Len(abandonedVMs) = 2 /\ Len(dispatched) = 2
  /\ \A d \in 1..2 : dispatched[d].reply.err # NoError

\* C28: in both variants at most one session is open on the deletion
\* connection at any time, a session is opened only when none is open, and
\* none is open once deleteAbandonedVMs has returned.
C28_SessionHygiene ==
  /\ openSessions <= 1
  /\ pc = "loop" => openSessions = 0
  /\ pc = "returned" => openSessions = 0

\* the same for the hardened variant alone
C28_SessionHygieneHardened == variant = "hardened" => C28_SessionHygiene

(***************************************************************************)
(* Properties of the goroutines of fetchOpenStackVMList (SpecPoolFair).    *)
(***************************************************************************)
\* the goroutines that have not returned
PoolRunning ==
  poolAt[PoolPosition("start", 0)] + PoolHolders

\* C29: whatever the number of projects, every goroutine leaves the send on
\* sem, every token of sem is taken back, and the function returns; when sem
\* is closed no goroutine is before or at its send and no goroutine holds a
\* token, and sem is closed once, by the return.
C29_FanOutTerminates ==
  /\ <>[](poolAt[PoolPosition("start", 0)] = 0)
  /\ <>[](poolSem = 0 /\ PoolRunning = 0)
  /\ <>[](poolPc = "returned")
  /\ [](poolClosed <=> poolPc = "returned")
  /\ [](poolClosed => PoolRunning = 0 /\ poolSem = 0 /\ poolWg = 0 /\ ~poolMu)

\* the function has returned after the goroutines of 12 projects have
C29_Witness ==
  /\ poolPc = "returned" /\ poolClosed
  /\ poolAt[PoolPosition("done", 0)] = 12

====
